---------------------------- MODULE Spec2Model ----------------------------
(***************************************************************************)
(* The template engine of kenx: class KenxViews.                           *)
(*                                                                         *)
(* Two copies of the class are in the repository:                          *)
(*   "framework"  packages/framework/src/auth.ts   (lines 436-764)         *)
(*   "legacy"     src/views.ts                     (lines 23-319)          *)
(*                                                                         *)
(* Text.  A JavaScript string is held as the sequence of its lexemes:      *)
(* every character that is not a word character (\w) is a lexeme of its    *)
(* own, and every maximal run of word characters is one lexeme.  The four  *)
(* regular expressions of processKenxTemplate only use the character       *)
(* classes \s, \w, [^}], [^%], single literal characters, and the literal  *)
(* words if/endif/for/in/endfor, each of which the expressions force to be *)
(* a whole run of word characters, so matching over lexemes is matching    *)
(* over characters.  Norm re-joins word lexemes that a substitution has    *)
(* made adjacent.  The only white-space character used is the blank.       *)
(*                                                                         *)
(* Values.  A JavaScript value is a tagged record (Undef, Null, Str, Num,  *)
(* Bool, Arr, Obj).  A render context is a function from keys to values.   *)
(***************************************************************************)
EXTENDS Integers, Sequences, FiniteSets, TLC

VARIABLES
    \* ---- one call of processKenxTemplate (specification SpecEngine)
    copy,           \* which copy of the class runs
    tpl,            \* argument template
    dat,            \* argument data
    epc,            \* "ready" before the call, "done" after it
    passes,         \* the value of `result` after each of the four passes
    expansions,     \* the (content, loopData) pairs handed to the recursive
                    \* calls of the loop pass, in call order
    \* ---- the KenxViews object and its callers (specification Spec)
    config,         \* this.config
    files,          \* the file system: path -> content, or NoFile
    templateCache,  \* this.templateCache
    compiledCache,  \* this.compiledCache
    calls,          \* the render() calls: one record per call slot
    writes,         \* number of changes made to the file system so far
    \* ---- the sessions of a Kenx application (specification SpecSession)
    auth,           \* this.config.auth
    sessions,       \* this.sessions: session id -> session data
    now,            \* Date.now(), in hours
    request,        \* the request being handled, as enhanceRequest left it
    issued,         \* how many session ids uuidv4() has produced
    \* ---- the KenxWebSocket object (specification SpecSocket)
    clients,        \* the keys of this.clients
    rooms,          \* this.rooms: room -> set of client ids
    sockets         \* the WSClient objects: status of the socket, rooms

engineVars == <<copy, tpl, dat, epc, passes, expansions>>
facadeVars == <<config, files, templateCache, compiledCache, calls, writes>>
sessionVars == <<auth, sessions, now, request, issued>>
socketVars == <<clients, rooms, sockets>>
appVars == <<auth, sessions, now, request, issued, clients, rooms, sockets>>
vars == <<copy, tpl, dat, epc, passes, expansions,
          config, files, templateCache, compiledCache, calls, writes,
          auth, sessions, now, request, issued, clients, rooms, sockets>>

---------------------------------------------------------------------------
(* Lexemes *)

NonWord == {"{", "}", "%", " ", "<", ">", "&", "\"", "'", ".", ",", ";",
            "#", "[", "]", "/", "!", "=", "(", ")", ":"}
IsSpace(c) == c = " "
IsWord(c) == c \notin NonWord /\ c # ""

Min(S) == CHOOSE x \in S : \A y \in S : x <= y
Max(S) == CHOOSE x \in S : \A y \in S : x >= y

\* The lexeme at position i, "" beyond either end.
At(s, i) == IF i >= 1 /\ i <= Len(s) THEN s[i] ELSE ""

\* Least position >= from holding c; 0 when there is none.
FirstIdx(s, from, c) ==
    LET S == {j \in from..Len(s) : s[j] = c}
    IN  IF S = {} THEN 0 ELSE Min(S)

\* Least position >= from that holds no blank; Len(s)+1 when there is none.
SkipSpaces(s, from) ==
    LET S == {j \in from..Len(s) : ~IsSpace(s[j])}
    IN  IF S = {} THEN Len(s) + 1 ELSE Min(S)

\* String.prototype.trim
Trim(s) ==
    LET S == {j \in 1..Len(s) : ~IsSpace(s[j])}
    IN  IF S = {} THEN <<>> ELSE SubSeq(s, Min(S), Max(S))

RECURSIVE Norm(_)
Norm(s) ==
    IF Len(s) < 2 THEN s
    ELSE LET r == Norm(Tail(s))
         IN  IF IsWord(s[1]) /\ IsWord(r[1])
             THEN <<s[1] \o r[1]>> \o Tail(r)
             ELSE <<s[1]>> \o r

\* The characters of a lexeme sequence as one TLA+ string (an object key).
RECURSIVE Glue(_)
Glue(s) == IF s = <<>> THEN "" ELSE s[1] \o Glue(Tail(s))

---------------------------------------------------------------------------
(* Values *)

Undef == [t |-> "undefined"]
Null == [t |-> "null"]
Str(s) == [t |-> "string", s |-> s]
Num(n) == [t |-> "number", n |-> n]
Bool(b) == [t |-> "boolean", b |-> b]
Arr(a) == [t |-> "array", a |-> a]
Obj(m) == [t |-> "object", m |-> m]
\* a built-in constructor function
Fn(name) == [t |-> "function", name |-> name]

NoKeys == [k \in {} |-> Undef]

\* { ...d, [k]: v }
Extend(d, k, v) == [j \in DOMAIN d \cup {k} |-> IF j = k THEN v ELSE d[j]]

\* What a plain object finds on Object.prototype under a key it does not
\* own, for the keys templates name.
Inherited(k) == IF k = "constructor" THEN Fn(<<"Object">>) ELSE Undef

\* obj[key] of a plain data object: the object's own value, or else the
\* inherited one
Get(d, k) == IF k \in DOMAIN d THEN d[k] ELSE Inherited(k)

\* value.constructor of a value that is not a plain object
ConstructorOf(v) ==
    CASE v.t = "string" -> Fn(<<"String">>)
      [] v.t = "number" -> Fn(<<"Number">>)
      [] v.t = "boolean" -> Fn(<<"Boolean">>)
      [] v.t = "array" -> Fn(<<"Array">>)
      [] v.t = "function" -> Fn(<<"Function">>)
      [] OTHER -> Undef

\* value[key]: plain objects own the keys templates name; every value
\* but undefined and null has a constructor, and a function a name
Prop(v, k) ==
    IF v.t = "object" THEN Get(v.m, k)
    ELSE IF k = "constructor" THEN ConstructorOf(v)
    ELSE IF v.t = "function" /\ k = "name" THEN Str(v.name)
    ELSE Undef

IsNullish(v) == v.t \in {"undefined", "null"}

\* ToBoolean gone wrong: empty containers taken for false.
TruthyExceptEmptyContainers(v) ==
    CASE v.t = "undefined" -> FALSE
      [] v.t = "null" -> FALSE
      [] v.t = "string" -> v.s # <<>>
      [] v.t = "number" -> v.n # 0
      [] v.t = "boolean" -> v.b
      [] v.t = "array" -> v.a # <<>>
      [] OTHER -> DOMAIN v.m # {}

\* ToBoolean
Truthy(v) ==
    CASE v.t = "undefined" -> FALSE
      [] v.t = "null" -> FALSE
      [] v.t = "string" -> v.s # <<>>
      [] v.t = "number" -> v.n # 0
      [] v.t = "boolean" -> v.b
      [] OTHER -> TRUE

Digit == <<"0", "1", "2", "3", "4", "5", "6", "7", "8", "9">>

RECURSIVE NumStr(_)
NumStr(n) == IF n < 10 THEN Digit[n + 1]
             ELSE NumStr(n \div 10) \o Digit[(n % 10) + 1]

\* String(value), value neither undefined nor null at the top
RECURSIVE JsString(_)
JsString(v) ==
    CASE v.t = "string" -> v.s
      [] v.t = "number" -> <<NumStr(v.n)>>
      [] v.t = "boolean" -> IF v.b THEN <<"true">> ELSE <<"false">>
      [] v.t = "array" ->
            IF v.a = <<>> THEN <<>>
            ELSE (IF IsNullish(v.a[1]) THEN <<>> ELSE JsString(v.a[1]))
                 \o (IF Len(v.a) > 1
                     THEN <<",">> \o JsString(Arr(Tail(v.a)))
                     ELSE <<>>)
      [] v.t = "object" -> <<"[", "object", " ", "Object", "]">>
      [] v.t = "function" ->
            <<"function", " ">> \o v.name
            \o <<"(", ")", " ", "{", " ", "[", "native", " ", "code", "]",
                 " ", "}">>
      [] v.t = "undefined" -> <<"undefined">>
      [] OTHER -> <<"null">>

---------------------------------------------------------------------------
(* evaluateExpression and getNestedProperty *)

\* The identifiers templates and data use: none is a reserved word, a
\* literal or a global of the host.
Idents == {"name", "count", "title", "e", "v", "w", "k", "x", "xs", "item",
           "index", "first", "last", "body", "u", "post", "posts",
           "constructor"}

\* expr is  id ( . id )*
IsPath(expr) ==
    /\ Len(expr) % 2 = 1
    /\ \A i \in 1..Len(expr) :
          IF i % 2 = 1 THEN expr[i] \in Idents ELSE expr[i] = "."

PathKeys(expr) == [i \in 1..((Len(expr) + 1) \div 2) |-> expr[2 * i - 1]]

\* path.split('.')
RECURSIVE SplitDots(_)
SplitDots(expr) ==
    LET d == FirstIdx(expr, 1, ".")
    IN  IF d = 0 THEN <<Glue(expr)>>
        ELSE <<Glue(SubSeq(expr, 1, d - 1))>>
             \o SplitDots(SubSeq(expr, d + 1, Len(expr)))

\* reduce step: current && current[key] !== undefined ? current[key] : undefined
NestedStep(current, key) ==
    IF Truthy(current) THEN Prop(current, key) ELSE Undef

RECURSIVE NestedFrom(_, _)
NestedFrom(current, keys) ==
    IF keys = <<>> THEN current
    ELSE NestedFrom(NestedStep(current, keys[1]), Tail(keys))

getNestedProperty(obj, path) == NestedFrom(Obj(obj), SplitDots(path))

\* Member accesses  v.k1.k2...  as the host evaluates them: the list of the
\* values met, ending at the first undefined or null one.
RECURSIVE Walk(_, _)
Walk(v, keys) ==
    IF keys = <<>> \/ IsNullish(v) THEN <<v>>
    ELSE <<v>> \o Walk(Prop(v, keys[1]), Tail(keys))

\* `with(data)` resolves an identifier on data when data has the property,
\* its own or inherited; the identifiers of Idents are bound nowhere else.
InScope(data, k) == k \in DOMAIN data \/ Inherited(k) # Undef

\* new Function('data', `with(data) { return ${expr}; }`)(data) throws:
\* a SyntaxError for an expression that is not a path (the empty
\* expression is `return ;`), a ReferenceError for an unbound head,
\* a TypeError for a member access on undefined or null.
Tier1Throws(expr, data) ==
    IF expr = <<>> THEN FALSE
    ELSE IF ~IsPath(expr) THEN TRUE
    ELSE LET keys == PathKeys(expr)
         IN  \/ ~InScope(data, keys[1])
             \/ Len(Walk(Get(data, keys[1]), Tail(keys))) < Len(keys)

Tier1Value(expr, data) ==
    IF expr = <<>> THEN Undef
    ELSE LET keys == PathKeys(expr)
             w == Walk(Get(data, keys[1]), Tail(keys))
         IN  w[Len(w)]

evaluateExpression(expr, data) ==
    IF Tier1Throws(expr, data)
    THEN getNestedProperty(data, expr)
    ELSE Tier1Value(expr, data)

---------------------------------------------------------------------------
(* The interpolation passes *)

\* The character map with the apostrophe left out.
EscapeCharWithoutApostrophe(c) ==
    CASE c = "&" -> <<"&", "amp", ";">>
      [] c = "<" -> <<"&", "lt", ";">>
      [] c = ">" -> <<"&", "gt", ";">>
      [] c = "\"" -> <<"&", "quot", ";">>
      [] OTHER -> <<c>>

\* map[char] of the escaped pass
EscapeChar(c) ==
    CASE c = "&" -> <<"&", "amp", ";">>
      [] c = "<" -> <<"&", "lt", ";">>
      [] c = ">" -> <<"&", "gt", ";">>
      [] c = "\"" -> <<"&", "quot", ";">>
      [] c = "'" -> <<"&", "#", "39", ";">>
      [] OTHER -> <<c>>

\* stringValue.replace(/[&<>"']/g, ...)
RECURSIVE EscapeHtml(_)
EscapeHtml(s) ==
    IF s = <<>> THEN <<>> ELSE EscapeChar(s[1]) \o EscapeHtml(Tail(s))

\* value !== undefined && value !== null ? String(value) : ''
StringValue(v) == IF IsNullish(v) THEN <<>> ELSE JsString(v)

\* the callback of the {{{ }}} pass, framework copy
RawReplacement(expr, data) == StringValue(evaluateExpression(expr, data))

\* the callback of the {{ }} pass, framework copy
EscapedReplacement(expr, data) ==
    EscapeHtml(StringValue(evaluateExpression(expr, data)))

\* the callback of both passes, legacy copy: evaluateExpression(...) || ''
\* which String.prototype.replace then converts to a string
LegacyReplacement(expr, data) ==
    LET v == evaluateExpression(expr, data)
    IN  IF Truthy(v) THEN JsString(v) ELSE <<>>

\* /\{\{\{\s*([^}]+)\s*\}\}\}/ tried at position i
RawMatch(s, i) ==
    LET j == FirstIdx(s, i + 3, "}")
    IN  [ok |-> /\ At(s, i) = "{" /\ At(s, i + 1) = "{" /\ At(s, i + 2) = "{"
                /\ j > i + 3
                /\ At(s, j + 1) = "}" /\ At(s, j + 2) = "}",
         expr |-> IF j > i + 3 THEN Trim(SubSeq(s, i + 3, j - 1)) ELSE <<>>,
         end |-> j + 2]

\* /\{\{\s*([^}]+)\s*\}\}/ tried at position i
EscapedMatch(s, i) ==
    LET j == FirstIdx(s, i + 2, "}")
    IN  [ok |-> /\ At(s, i) = "{" /\ At(s, i + 1) = "{"
                /\ j > i + 2
                /\ At(s, j + 1) = "}",
         expr |-> IF j > i + 2 THEN Trim(SubSeq(s, i + 2, j - 1)) ELSE <<>>,
         end |-> j + 1]

IsFramework(c) == c = "framework"

\* result.replace(/\{\{\{...\}\}\}/g, callback), scanning from position i
RECURSIVE RawScan(_, _, _, _)
RawScan(c, s, i, data) ==
    IF i > Len(s) THEN <<>>
    ELSE LET m == RawMatch(s, i)
         IN  IF m.ok
             THEN (IF IsFramework(c) THEN RawReplacement(m.expr, data)
                   ELSE LegacyReplacement(m.expr, data))
                  \o RawScan(c, s, m.end + 1, data)
             ELSE <<s[i]>> \o RawScan(c, s, i + 1, data)

\* result.replace(/\{\{...\}\}/g, callback), scanning from position i
RECURSIVE EscapedScan(_, _, _, _)
EscapedScan(c, s, i, data) ==
    IF i > Len(s) THEN <<>>
    ELSE LET m == EscapedMatch(s, i)
         IN  IF m.ok
             THEN (IF IsFramework(c) THEN EscapedReplacement(m.expr, data)
                   ELSE LegacyReplacement(m.expr, data))
                  \o EscapedScan(c, s, m.end + 1, data)
             ELSE <<s[i]>> \o EscapedScan(c, s, i + 1, data)

\* The escaped pass escaping the text around the directives as well.
EscapedPassEscapingAll(c, s, data) ==
    Norm(EscapeHtml(EscapedScan(c, s, 1, data)))

RawPass(c, s, data) == Norm(RawScan(c, s, 1, data))
EscapedPass(c, s, data) == Norm(EscapedScan(c, s, 1, data))

\* The first two statements of processKenxTemplate, in the order of the copy.
FirstPass(c, s, data) ==
    IF IsFramework(c) THEN RawPass(c, s, data) ELSE EscapedPass(c, s, data)
SecondPass(c, s, data) ==
    IF IsFramework(c) THEN EscapedPass(c, s, data) ELSE RawPass(c, s, data)

---------------------------------------------------------------------------
(* The block passes *)

NoMatch == [ok |-> FALSE]

\* /\{%\s*endif\s*%\}/ or /\{%\s*endfor\s*%\}/ tried at position k
EndTag(s, k, word) ==
    IF At(s, k) # "{" THEN NoMatch
    ELSE LET b == SkipSpaces(s, k + 2)
             c == SkipSpaces(s, b + 1)
         IN  [ok |-> /\ At(s, k + 1) = "%"
                     /\ At(s, b) = word
                     /\ At(s, c) = "%" /\ At(s, c + 1) = "}",
              end |-> c + 1]

\* ([\s\S]*) before the end tag, greedy: the greatest position >= from at
\* which the end tag matches; 0 when it matches nowhere.
LastEndTag(s, from, word) ==
    LET S == {k \in from..Len(s) : EndTag(s, k, word).ok}
    IN  IF S = {} THEN 0 ELSE CHOOSE k \in S : \A j \in S : j <= k

\* ([\s\S]*?) before the end tag: the least position >= from at which the
\* end tag matches; 0 when it matches nowhere.
FirstEndTag(s, from, word) ==
    LET S == {k \in from..Len(s) : EndTag(s, k, word).ok}
    IN  IF S = {} THEN 0 ELSE Min(S)

\* /\{%\s*if\s+([^%]+)\s*%\}([\s\S]*?)\{%\s*endif\s*%\}/ tried at position i
CondMatch(s, i) ==
    IF At(s, i) # "{" \/ At(s, i + 1) # "%" THEN NoMatch
    ELSE LET a == SkipSpaces(s, i + 2)
             j == FirstIdx(s, a + 2, "%")
             head == /\ At(s, a) = "if"
                     /\ IsSpace(At(s, a + 1))
                     /\ j >= a + 3
                     /\ At(s, j + 1) = "}"
             k == IF head THEN FirstEndTag(s, j + 2, "endif") ELSE 0
         IN  IF k = 0 THEN NoMatch
             ELSE [ok |-> TRUE,
                   condition |-> SubSeq(s, a + 2, j - 1),
                   content |-> SubSeq(s, j + 2, k - 1),
                   end |-> EndTag(s, k, "endif").end]

\* /\{%\s*for\s+(\w+)\s+in\s+([^%]+)\s*%\}([\s\S]*?)\{%\s*endfor\s*%\}/
\* tried at position i
LoopMatch(s, i) ==
    IF At(s, i) # "{" \/ At(s, i + 1) # "%" THEN NoMatch
    ELSE LET a == SkipSpaces(s, i + 2)
             v == SkipSpaces(s, a + 1)
             n == SkipSpaces(s, v + 1)
             j == FirstIdx(s, n + 2, "%")
             head == /\ At(s, a) = "for"
                     /\ IsSpace(At(s, a + 1))
                     /\ IsWord(At(s, v))
                     /\ IsSpace(At(s, v + 1))
                     /\ At(s, n) = "in"
                     /\ IsSpace(At(s, n + 1))
                     /\ j >= n + 3
                     /\ At(s, j + 1) = "}"
             k == IF head THEN FirstEndTag(s, j + 2, "endfor") ELSE 0
         IN  IF k = 0 THEN NoMatch
             ELSE [ok |-> TRUE,
                   itemVar |-> s[v],
                   arrayExpr |-> SubSeq(s, n + 2, j - 1),
                   content |-> SubSeq(s, j + 2, k - 1),
                   end |-> EndTag(s, k, "endfor").end]

\* The child context with `last` off by one: index === array.length.
loopDataLastAtLength(data, itemVar, item, index, length) ==
    Extend(Extend(Extend(Extend(data, itemVar, item),
                         "index", Num(index)),
                  "first", Bool(index = 0)),
           "last", Bool(index = length))

\* { ...data, [itemVar]: item, index, first: index === 0,
\*   last: index === array.length - 1 }
loopData(data, itemVar, item, index, length) ==
    Extend(Extend(Extend(Extend(data, itemVar, item),
                         "index", Num(index)),
                  "first", Bool(index = 0)),
           "last", Bool(index = length - 1))

\* The loop callback without its Array.isArray test: a string is iterated
\* character by character.
LoopCallsOverStrings(m, data) ==
    LET array == evaluateExpression(Trim(m.arrayExpr), data)
    IN  IF array.t = "array"
        THEN [n \in 1..Len(array.a) |->
                [content |-> m.content,
                 data |-> loopData(data, m.itemVar, array.a[n], n - 1,
                                   Len(array.a))]]
        ELSE IF array.t = "string"
        THEN [n \in 1..Len(array.s) |->
                [content |-> m.content,
                 data |-> loopData(data, m.itemVar, Str(<<array.s[n]>>), n - 1,
                                   Len(array.s))]]
        ELSE <<>>

\* The arguments of the recursive calls the loop callback makes for one
\* match: one per element, in array order.
LoopCalls(m, data) ==
    LET array == evaluateExpression(Trim(m.arrayExpr), data)
    IN  IF array.t = "array"
        THEN [n \in 1..Len(array.a) |->
                [content |-> m.content,
                 data |-> loopData(data, m.itemVar, array.a[n], n - 1,
                                   Len(array.a))]]
        ELSE <<>>

RECURSIVE processKenxTemplate(_, _, _)
RECURSIVE CondScan(_, _, _, _)
RECURSIVE LoopScan(_, _, _, _)
RECURSIVE JoinCalls(_, _)

\* array.map(...).join('')
JoinCalls(c, cs) ==
    IF cs = <<>> THEN <<>>
    ELSE processKenxTemplate(c, cs[1].content, cs[1].data)
         \o JoinCalls(c, Tail(cs))

\* the callback of the conditional pass
CondReplacement(c, m, data) ==
    IF Truthy(evaluateExpression(Trim(m.condition), data))
    THEN processKenxTemplate(c, m.content, data)
    ELSE <<>>

CondScan(c, s, i, data) ==
    IF i > Len(s) THEN <<>>
    ELSE LET m == CondMatch(s, i)
         IN  IF m.ok
             THEN CondReplacement(c, m, data) \o CondScan(c, s, m.end + 1, data)
             ELSE <<s[i]>> \o CondScan(c, s, i + 1, data)

LoopScan(c, s, i, data) ==
    IF i > Len(s) THEN <<>>
    ELSE LET m == LoopMatch(s, i)
         IN  IF m.ok
             THEN JoinCalls(c, LoopCalls(m, data))
                  \o LoopScan(c, s, m.end + 1, data)
             ELSE <<s[i]>> \o LoopScan(c, s, i + 1, data)

CondPass(c, s, data) == Norm(CondScan(c, s, 1, data))
LoopPass(c, s, data) == Norm(LoopScan(c, s, 1, data))

\* The n-th statement of processKenxTemplate applied to the buffer s.
ApplyPass(c, n, s, data) ==
    CASE n = 1 -> FirstPass(c, s, data)
      [] n = 2 -> SecondPass(c, s, data)
      [] n = 3 -> CondPass(c, s, data)
      [] n = 4 -> LoopPass(c, s, data)

\* The statements run in order, each on the result of the one before;
\* results holds the template followed by the value of `result` after each
\* statement run so far.
RECURSIVE Statements(_, _, _)
Statements(c, results, data) ==
    IF Len(results) = 5 THEN results
    ELSE Statements(c, Append(results,
                              ApplyPass(c, Len(results),
                                        results[Len(results)], data)),
                    data)

\* The value of `result` after each of the four statements.
PassResults(c, template, data) == Tail(Statements(c, <<template>>, data))

processKenxTemplate(c, template, data) == PassResults(c, template, data)[4]

\* The recursive calls the conditional pass of the outermost call makes on
\* buffer s: one per match whose condition is truthy.
RECURSIVE CondExpansions(_, _, _)
CondExpansions(s, i, data) ==
    IF i > Len(s) THEN <<>>
    ELSE LET m == CondMatch(s, i)
         IN  IF m.ok
             THEN (IF Truthy(evaluateExpression(Trim(m.condition), data))
                   THEN <<[content |-> m.content, data |-> data]>>
                   ELSE <<>>)
                  \o CondExpansions(s, m.end + 1, data)
             ELSE CondExpansions(s, i + 1, data)

\* The recursive calls the loop pass of the outermost call makes on buffer s.
RECURSIVE LoopExpansions(_, _, _)
LoopExpansions(s, i, data) ==
    IF i > Len(s) THEN <<>>
    ELSE LET m == LoopMatch(s, i)
         IN  IF m.ok
             THEN LoopCalls(m, data) \o LoopExpansions(s, m.end + 1, data)
             ELSE LoopExpansions(s, i + 1, data)

---------------------------------------------------------------------------
(* Template sources and data the engine is run on *)

\* {{ expr }}
Esc(expr) == <<"{", "{", " ">> \o expr \o <<" ", "}", "}">>
\* {{{ expr }}}
Raw(expr) == <<"{", "{", "{", " ">> \o expr \o <<" ", "}", "}", "}">>
\* {% if expr %}
If(expr) == <<"{", "%", " ", "if", " ">> \o expr \o <<" ", "%", "}">>
EndIf == <<"{", "%", " ", "endif", " ", "%", "}">>
\* {% for itemVar in expr %}
For(itemVar, expr) ==
    <<"{", "%", " ", "for", " ", itemVar, " ", "in", " ">> \o expr
    \o <<" ", "%", "}">>
EndFor == <<"{", "%", " ", "endfor", " ", "%", "}">>

\* Hello {{ name }}, you have {{{ count }}} items
HelloTemplate ==
    <<"Hello", " ">> \o Esc(<<"name">>) \o <<",", " ", "you", " ", "have", " ">>
    \o Raw(<<"count">>) \o <<" ", "items">>

\* Hello &lt;Bo&gt;, you have <b>3</b> items
HelloOutput ==
    <<"Hello", " ", "&", "lt", ";", "Bo", "&", "gt", ";", ",", " ", "you",
      " ", "have", " ", "<", "b", ">", "3", "<", "/", "b", ">", " ", "items">>

\* Sources with no directive.
PlainTemplates ==
    { <<>>,
      <<"Hi", " ", "<", "b", ">", "&", "'", "\"">>,
      <<"{", " ", "a", " ", "}", " ", "50", "%", " ", "{", "{", "}", "}">>,
      <<"{", "%", " ", "if", " ", "%", "}", " ", "if", " ", "for", " ", "x",
        " ", "in", " ", "xs">> }

\* The bodies of the blocks.
Bodies ==
    { <<>>,
      <<"A">>,
      <<"(">> \o Esc(<<"name">>) \o <<")">>,
      Raw(<<"count">>),
      Esc(<<"v">>),
      Esc(<<"x">>),
      <<"<">> \o Esc(<<"index">>) \o <<":">> \o Esc(<<"x">>) \o <<">">> }

InterpolationTemplates ==
    { HelloTemplate,
      Esc(<<"e">>), Raw(<<"e">>),
      <<"a">> \o Esc(<<"e">>) \o <<"b">>, <<"a">> \o Raw(<<"e">>) \o <<"b">>,
      Esc(<<"e", ".", "k">>), Raw(<<"e", ".", "k", ".", "k">>),
      Esc(<<"u", ".", "k">>),
      Esc(<<"constructor">>), Esc(<<"constructor", ".", "name">>),
      Esc(<<"e", " ", "e">>), Raw(<<"{", "e">>),
      Raw(<<"e">>) \o Esc(<<"name">>),
      <<"{", "{", "{", " ", "e", " ", "}", "}">> }

CondTemplates ==
    { <<"L">> \o If(<<"e">>) \o b \o EndIf \o <<"R">> : b \in Bodies }
    \cup { If(<<"e", ".", "k">>) \o <<"A">> \o EndIf,
           If(<<"e">>) \o <<"X">> \o If(<<"name">>) \o <<"Y">> \o EndIf
               \o <<"Z">> \o EndIf }

LoopTemplates ==
    { <<"L">> \o For("x", <<"e">>) \o b \o EndFor \o <<"R">> : b \in Bodies }
    \cup { For("x", <<"xs">>) \o Esc(<<"x">>) \o EndFor,
           For("name", <<"xs">>) \o <<"A">> \o EndFor \o Esc(<<"name">>),
           For("index", <<"xs">>) \o <<"A">> \o EndFor,
           For("first", <<"xs">>) \o <<"A">> \o EndFor,
           For("x", <<"xs">>) \o <<"A">> \o EndFor,
           For("x", <<"e", ".", "k">>) \o <<"A">> \o EndFor,
           For("x", <<"e", " ", "e">>) \o <<"A">> \o EndFor,
           If(<<"posts">>) \o For("post", <<"posts">>)
               \o Esc(<<"post", ".", "title">>) \o EndFor \o EndIf }

Templates ==
    PlainTemplates \cup InterpolationTemplates \cup CondTemplates
    \cup LoopTemplates

\* String values, some with the five characters the escaped pass maps,
\* some with directive syntax.
Strings ==
    { <<>>,
      <<"a">>,
      <<"<", "b", ">">>,
      <<"&", "<", ">", "\"", "'">>,
      <<"a", "&", "amp", ";", "&", "lt", ";", "'", "b", "'">>,
      Esc(<<"w">>),
      If(<<"w">>) \o <<"T">> \o EndIf,
      If(<<"w">>) \o <<"a", " ", "b", " ", "c", " ", "d", " ", "e", " ", "f">>
          \o EndIf }

A3 == Arr(<<Str(<<"a">>), Str(<<"b">>), Str(<<"c">>)>>)

\* The values bound to e.
Values ==
    { Str(s) : s \in Strings }
    \cup { Undef, Null, Num(0), Num(3), Num(10), Bool(TRUE), Bool(FALSE),
           Arr(<<>>), Arr(<<Str(<<"<">>)>>), A3,
           Arr(<<Num(1), Undef, Arr(<<Bool(TRUE), Null>>)>>),
           Obj(NoKeys), Obj([k \in {"k"} |-> Str(<<"a", "&">>)]),
           Obj([k \in {"k"} |-> Obj([j \in {"k"} |-> Num(7)])]) }

\* The bindings every context has.
BaseData ==
    [key \in {"name", "count", "xs", "w", "v", "posts"} |->
        CASE key = "name" -> Str(<<"<", "Bo", ">">>)
          [] key = "count" -> Str(<<"<", "b", ">", "3", "<", "/", "b", ">">>)
          [] key = "xs" -> A3
          [] key = "w" -> Str(<<"z">>)
          [] key = "v" -> Str(Esc(<<"index">>))
          [] OTHER -> Arr(<<Obj([k \in {"title"} |-> Str(<<"P", "&">>)])>>)]

\* BaseData, and BaseData with e bound to each value.
Contexts == {BaseData} \cup { Extend(BaseData, "e", val) : val \in Values }

Copies == {"framework", "legacy"}

---------------------------------------------------------------------------
(* The KenxViews object at rest, for the runs of the engine alone *)

NoFile == [t |-> "nofile"]

IdleFacade ==
    /\ config = [engine |-> "kenx", viewsDir |-> "views",
                 defaultLayout |-> <<>>, cache |-> FALSE]
    /\ files = <<>>
    /\ templateCache = <<>>
    /\ compiledCache = <<>>
    /\ calls = <<>>
    /\ writes = 0

\* The request slot while no request is being handled.
NoRequest ==
    [st |-> "none", cookie |-> "", at |-> 0, via |-> "",
     session |-> "undefined", user |-> ""]

\* The sessions of the application at rest.
IdleSession ==
    /\ auth = [enabled |-> FALSE, sessionExpiry |-> 0]
    /\ sessions = <<>>
    /\ now = 0
    /\ request = NoRequest
    /\ issued = 0

\* The KenxWebSocket object at rest.
IdleSocket ==
    /\ clients = {}
    /\ rooms = <<>>
    /\ sockets = <<>>

---------------------------------------------------------------------------
(* Specification SpecEngine: one call processKenxTemplate(tpl, dat) *)

InitEngine ==
    /\ copy \in Copies
    /\ tpl \in Templates
    /\ dat \in Contexts
    /\ epc = "ready"
    /\ passes = <<>>
    /\ expansions = <<>>
    /\ IdleFacade
    /\ IdleSession
    /\ IdleSocket

\* The call runs to its return statement.
Process ==
    /\ epc = "ready"
    /\ epc' = "done"
    /\ passes' = PassResults(copy, tpl, dat)
    /\ expansions' = LoopExpansions(passes'[3], 1, dat)
    /\ UNCHANGED <<copy, tpl, dat>>
    /\ UNCHANGED <<facadeVars, appVars>>

NextEngine == Process

SpecEngine == InitEngine /\ [][NextEngine]_vars

\* The return value of the call.
out == passes[4]

---------------------------------------------------------------------------
(* The KenxViews object: configuration, files, caches (specification Spec) *)

MaxCalls == 2       \* render() calls that may overlap
MaxWrites == 1      \* changes made to the file system during a run

Slots == 1..MaxCalls

\* new KenxViews(cfg) under NODE_ENV = env:
\* { cache: process.env.NODE_ENV === 'production', ...cfg }
Constructor(cfg, env) ==
    [engine |-> cfg.engine,
     viewsDir |-> cfg.viewsDir,
     defaultLayout |-> cfg.defaultLayout,
     cache |-> IF cfg.cache = "unset" THEN env = "production"
               ELSE cfg.cache = "true"]

\* The ViewConfig objects given to the constructor; "unset" is an omitted
\* cache option, the empty defaultLayout an omitted defaultLayout.
ViewConfig(engine, defaultLayout, cache) ==
    [engine |-> engine, viewsDir |-> "views",
     defaultLayout |-> defaultLayout, cache |-> cache]

ViewConfigs ==
    { ViewConfig("kenx", <<>>, "unset"),
      ViewConfig("kenx", <<"main">>, "unset"),
      ViewConfig("kenx", <<"main">>, "true"),
      ViewConfig("kenx", <<>>, "false"),
      ViewConfig("pug", <<>>, "false") }

getTemplateExtension ==
    CASE config.engine = "ejs" -> ".ejs"
      [] config.engine = "handlebars" -> ".hbs"
      [] config.engine = "kenx" -> ".kenx"
      [] OTHER -> ".html"

\* name.endsWith(ext) ? name : `${name}${ext}`, a name being its base
\* followed by the extension it carries, if any
WithExtension(name, ext) ==
    IF name # <<>> /\ name[Len(name)] = ext THEN name ELSE name \o <<ext>>

resolveTemplatePath(templateName) ==
    <<config.viewsDir>> \o WithExtension(templateName, getTemplateExtension)

\* layoutsDir is not configured: path.join(viewsDir, 'layouts')
resolveLayoutPath(layoutName) ==
    <<config.viewsDir, "layouts">>
    \o WithExtension(layoutName, getTemplateExtension)

\* fs.existsSync
existsSync(path) == path \in DOMAIN files /\ files[path] # NoFile

\* The cache key without the path: `kenx:`.
CacheKeyOfEngine(path) == <<"kenx:">>

\* `kenx:${templatePath}`
CacheKey(path) == <<"kenx:">> \o path

\* A step of a call on storage or on the cache, as the call's log keeps it.
Access(op, path) == [op |-> op, path |-> path]

\* fs.existsSync(path) as a step of a call, with what it answered.
ExistsCheck(path) == Access(IF existsSync(path) THEN "found" ELSE "missing", path)

\* renderKenx without the cache lookup: it reads the file every time and
\* stores what it read over the entry.
renderKenxRefreshing(templatePath, data, cache) ==
    [template |-> files[templatePath].src,
     content |-> processKenxTemplate("framework", files[templatePath].src,
                                     data),
     cache |-> IF config.cache
               THEN [k \in DOMAIN cache \cup {CacheKey(templatePath)} |->
                        IF k = CacheKey(templatePath)
                        THEN files[templatePath].src ELSE cache[k]]
               ELSE cache,
     log |-> IF config.cache
             THEN <<Access("read", templatePath),
                    Access("cacheSet", templatePath)>>
             ELSE <<Access("read", templatePath)>>]

\* renderKenx without the tests of this.config.cache: it looks in the
\* cache and stores what it read whatever the flag says.
renderKenxAlwaysCaching(templatePath, data, cache) ==
    LET key == CacheKey(templatePath)
        template == IF key \in DOMAIN cache THEN cache[key]
                    ELSE files[templatePath].src
    IN  [template |-> template,
         content |-> processKenxTemplate("framework", template, data),
         cache |-> [k \in DOMAIN cache \cup {key} |->
                      IF k = key THEN template ELSE cache[k]],
         log |-> IF key \in DOMAIN cache
                 THEN <<Access("cacheGet", templatePath)>>
                 ELSE <<Access("read", templatePath),
                        Access("cacheSet", templatePath)>>]

\* renderKenx(templatePath, data) run on cache `cache`; the file exists.
\* The template it used, the content it returns, the cache it leaves and
\* the accesses it made.
renderKenx(templatePath, data, cache) ==
    LET key == CacheKey(templatePath)
        hit == config.cache /\ key \in DOMAIN cache
        template == IF hit THEN cache[key] ELSE files[templatePath].src
    IN  [template |-> template,
         content |-> processKenxTemplate("framework", template, data),
         cache |-> IF config.cache /\ ~hit
                   THEN [k \in DOMAIN cache \cup {key} |->
                            IF k = key THEN template ELSE cache[k]]
                   ELSE cache,
         log |-> IF hit THEN <<Access("cacheGet", templatePath)>>
                 ELSE IF config.cache
                      THEN <<Access("read", templatePath),
                             Access("cacheSet", templatePath)>>
                      ELSE <<Access("read", templatePath)>>]

File(src) == [t |-> "file", src |-> src]

\* Template sources on disk.
HomeSource == <<"Hello", " ">> \o Esc(<<"name">>)
\* Hi <b> {{}} {100%}
PlainSource ==
    <<"Hi", " ", "<", "b", ">", " ", "{", "{", "}", "}", " ",
      "{", "100", "%", "}">>
MainLayout == <<"<", "main", ">">> \o Raw(<<"body">>) \o <<"<", "/", "main", ">">>
AltLayout == <<"[">> \o Esc(<<"name">>) \o <<":">> \o Raw(<<"body">>) \o <<"]">>
\* A{{ u.k }}B{{{ e e }}}C{{ name }}: two directives that fail for every
\* data given to render(), then one that does not.
BrokenSource ==
    <<"A">> \o Esc(<<"u", ".", "k">>) \o <<"B">> \o Raw(<<"e", " ", "e">>)
    \o <<"C">> \o Esc(<<"name">>)

\* {% for name in xs %}A{% endfor %}{{ name }}: the loop variable has the
\* name of a binding of the caller.
LoopSource ==
    For("name", <<"xs">>) \o <<"A">> \o EndFor \o Esc(<<"name">>)

HomePath == <<"views", "home", ".kenx">>
PlainPath == <<"views", "plain", ".kenx">>
MainPath == <<"views", "layouts", "main", ".kenx">>
AltPath == <<"views", "layouts", "alt", ".kenx">>
BrokenPath == <<"views", "broken", ".kenx">>
HtmlPath == <<"views", "home", ".html">>
LoopPath == <<"views", "loop", ".kenx">>
Paths ==
    {HomePath, PlainPath, MainPath, AltPath, BrokenPath, HtmlPath, LoopPath}

\* The starting file system.
InitialFiles ==
    [path \in Paths |->
        CASE path = HomePath -> File(HomeSource)
          [] path = PlainPath -> File(PlainSource)
          [] path = MainPath -> File(MainLayout)
          [] path = AltPath -> File(AltLayout)
          [] path = BrokenPath -> File(BrokenSource)
          [] path = LoopPath -> File(LoopSource)
          [] OTHER -> File(HomeSource)]

\* What a change of the file system may write, and the files it may write
\* or remove.
WrittenSources == {PlainSource}
WrittenPaths == {HomePath, MainPath}
RemovedPaths == {HomePath, MainPath, AltPath}

\* The arguments of render().
TemplateNames ==
    {<<"home">>, <<"plain", ".kenx">>, <<"nope">>, <<"broken">>, <<"loop">>}
PlainData ==
    [key \in {"name", "xs"} |->
        IF key = "name" THEN Str(<<"<", "Bo", ">">>) ELSE A3]
BodyData ==
    [key \in {"name", "body"} |->
        IF key = "name" THEN Str(<<"Al">>) ELSE Str(<<"mine">>)]
RenderOptions ==
    { [data |-> PlainData, layout |-> Undef],
      [data |-> BodyData, layout |-> Bool(FALSE)],
      [data |-> BodyData, layout |-> Str(<<"main">>)],
      [data |-> PlainData, layout |-> Str(<<"alt">>)] }

IdleCall ==
    [pc |-> "idle", name |-> <<>>, data |-> NoKeys, layout |-> Undef,
     body |-> <<>>, content |-> <<>>, error |-> "",
     template |-> <<>>, layoutTemplate |-> <<>>, layoutPath |-> <<>>,
     log |-> <<>>]

\* render() at `content = await this.renderKenx(templatePath, data, options)`:
\* r is what renderKenx did.
BodyRendered(call, r) ==
    [call |-> [call EXCEPT !.pc = "awaitBody",
                           !.template = r.template,
                           !.body = r.content,
                           !.content = r.content,
                           !.log = @ \o r.log],
     cache |-> r.cache]

\* render() leaves by an exception.
Thrown(call, error) ==
    [call |-> [call EXCEPT !.pc = "failed", !.error = error],
     cache |-> templateCache]

\* render() looking in the cache before the existence check: a cached
\* template is rendered whether or not its file is still there.
RenderAtCacheFirst(call, templatePath) ==
    IF config.engine = "kenx" /\ config.cache
       /\ CacheKey(templatePath) \in DOMAIN templateCache
    THEN BodyRendered(call,
                      renderKenx(templatePath, call.data, templateCache))
    ELSE IF ~existsSync(templatePath) THEN Thrown(call, "Template not found")
    ELSE IF config.engine = "kenx"
    THEN BodyRendered(call,
                      renderKenx(templatePath, call.data, templateCache))
    ELSE Thrown(call, "Unsupported template engine")

\* render() whose engine switch hands an unknown engine the template file
\* as it is, instead of throwing.
RenderAtDefaultPassThrough(call, templatePath) ==
    IF ~existsSync(templatePath) THEN Thrown(call, "Template not found")
    ELSE IF config.engine = "kenx"
    THEN BodyRendered(call,
                      renderKenx(templatePath, call.data, templateCache))
    ELSE BodyRendered(call,
                      [template |-> files[templatePath].src,
                       content |-> files[templatePath].src,
                       cache |-> templateCache,
                       log |-> <<Access("read", templatePath)>>])

\* render() after resolveTemplatePath: the existence check (the source makes
\* it twice), then the dispatch on the engine, up to the first await.
RenderAt(call, templatePath) ==
    IF ~existsSync(templatePath) THEN Thrown(call, "Template not found")
    ELSE IF config.engine = "kenx"
    THEN BodyRendered(call,
                      renderKenx(templatePath, call.data, templateCache))
    ELSE Thrown(call, "Unsupported template engine")

\* render(name, data, {layout}): from the call to its first await.
RenderBegin(name, data, layout) ==
    RenderAt([IdleCall EXCEPT
                 !.name = name, !.data = data, !.layout = layout,
                 !.log = <<ExistsCheck(resolveTemplatePath(name)),
                           ExistsCheck(resolveTemplatePath(name))>>],
             resolveTemplatePath(name))

\* The layout test without `options.layout !== false`.
LayoutWantedDespiteFalse(call) ==
    Truthy(call.layout) \/ config.defaultLayout # <<>>

\* options.layout !== false && (options.layout || this.config.defaultLayout)
LayoutWanted(call) ==
    /\ call.layout # Bool(FALSE)
    /\ (Truthy(call.layout) \/ config.defaultLayout # <<>>)

\* options.layout || this.config.defaultLayout
LayoutName(call) ==
    IF Truthy(call.layout) THEN call.layout.s ELSE config.defaultLayout

\* The layout data with the caller's keys spread last: { body: content,
\* ...data }.
LayoutDataCallerLast(call) ==
    IF "body" \in DOMAIN call.data THEN call.data
    ELSE Extend(call.data, "body", Str(call.content))

\* { ...data, body: content }
LayoutData(call) == Extend(call.data, "body", Str(call.content))

\* The layout rendered through render() instead of renderTemplate(): with
\* `layout: undefined` the inner call falls back to the default layout and
\* composes once more.
LayoutRenderedThroughRender(call, r) ==
    [call |-> [call EXCEPT
                 !.pc = "awaitLayout",
                 !.layoutTemplate = r.template,
                 !.content =
                    IF config.defaultLayout # <<>>
                       /\ existsSync(resolveLayoutPath(config.defaultLayout))
                    THEN processKenxTemplate(
                             "framework",
                             files[resolveLayoutPath(config.defaultLayout)].src,
                             Extend(call.data, "body", Str(r.content)))
                    ELSE r.content,
                 !.log = @ \o <<ExistsCheck(call.layoutPath)>> \o r.log
                           \o (IF config.defaultLayout # <<>>
                                  /\ existsSync(resolveLayoutPath(
                                                    config.defaultLayout))
                               THEN <<Access("resolveLayout",
                                             resolveLayoutPath(
                                                 config.defaultLayout)),
                                      Access("read",
                                             resolveLayoutPath(
                                                 config.defaultLayout))>>
                               ELSE <<>>)],
     cache |-> r.cache]

\* render() at `content = await this.renderTemplate(layoutPath, layoutData,
\* ...)`: renderTemplate checked that the file exists, r is what renderKenx
\* did.
LayoutRendered(call, r) ==
    [call |-> [call EXCEPT !.pc = "awaitLayout",
                           !.layoutTemplate = r.template,
                           !.content = r.content,
                           !.log = @ \o <<ExistsCheck(call.layoutPath)>>
                                     \o r.log],
     cache |-> r.cache]

\* render() after resolveLayoutPath without the existence test: a missing
\* layout makes renderTemplate throw.
LayoutAtUnchecked(call, layoutPath) ==
    IF ~existsSync(layoutPath) THEN Thrown(call, "Template not found")
    ELSE LayoutRendered(call,
                        renderKenx(layoutPath, LayoutData(call),
                                   templateCache))

\* render() after resolveLayoutPath: `if (fs.existsSync(layoutPath))`.
LayoutAt(call, layoutPath) ==
    IF ~existsSync(layoutPath)
    THEN [call |-> [call EXCEPT !.pc = "done"], cache |-> templateCache]
    ELSE LayoutRendered(call,
                        renderKenx(layoutPath, LayoutData(call),
                                   templateCache))

\* The body assigned into the caller's object, `data.body = content`,
\* instead of a copy being made.
LayoutSeenBodyAssigned(call, layoutPath) ==
    [call EXCEPT !.layoutPath = layoutPath,
                 !.data = Extend(call.data, "body", Str(call.content)),
                 !.log = @ \o <<Access("resolveLayout", layoutPath),
                                ExistsCheck(layoutPath)>>]

\* The call with the layout path it resolved and checked.
LayoutSeen(call, layoutPath) ==
    [call EXCEPT !.layoutPath = layoutPath,
                 !.log = @ \o <<Access("resolveLayout", layoutPath),
                                ExistsCheck(layoutPath)>>]

\* render(): from its first await to its return or to the await of
\* renderTemplate, whose body (existence check, dispatch, renderKenx) runs
\* in the same turn.
RenderLayout(call) ==
    IF ~LayoutWanted(call)
    THEN [call |-> [call EXCEPT !.pc = "done"], cache |-> templateCache]
    ELSE LayoutAt(LayoutSeen(call, resolveLayoutPath(LayoutName(call))),
                  resolveLayoutPath(LayoutName(call)))

InitFacade ==
    /\ \E cfg \in ViewConfigs, env \in {"production", "development"} :
          config = Constructor(cfg, env)
    /\ files = InitialFiles
    /\ templateCache = <<>>
    /\ compiledCache = <<>>
    /\ calls = [c \in Slots |-> IdleCall]
    /\ writes = 0

IdleEngine ==
    /\ copy = "framework"
    /\ tpl = <<>>
    /\ dat = NoKeys
    /\ epc = "idle"
    /\ passes = <<>>
    /\ expansions = <<>>

Init == InitFacade /\ IdleEngine /\ IdleSession /\ IdleSocket

\* A caller calls render(name, data, {layout}).
Render(c) ==
    /\ calls[c].pc = "idle"
    /\ \A b \in Slots : b < c => calls[b].pc # "idle"
    /\ \E name \in TemplateNames, o \in RenderOptions :
          \E r \in {RenderBegin(name, o.data, o.layout)} :
             /\ calls' = [calls EXCEPT ![c] = r.call]
             /\ templateCache' = r.cache
    /\ UNCHANGED <<config, files, compiledCache, writes>>
    /\ UNCHANGED <<engineVars, appVars>>

\* The call resuming with `content` a field of the object, shared by the
\* calls: it finds there what the first call left.
ResumeAfterBodySharedContent(c) ==
    /\ calls[c].pc = "awaitBody"
    /\ \E r \in {RenderLayout([calls[c] EXCEPT !.content = calls[1].content])} :
          /\ calls' = [calls EXCEPT ![c] = r.call]
          /\ templateCache' = r.cache
    /\ UNCHANGED <<config, files, compiledCache, writes>>
    /\ UNCHANGED <<engineVars, appVars>>

\* The call resumes after `await this.renderKenx(...)`.
ResumeAfterBody(c) ==
    /\ calls[c].pc = "awaitBody"
    /\ \E r \in {RenderLayout(calls[c])} :
          /\ calls' = [calls EXCEPT ![c] = r.call]
          /\ templateCache' = r.cache
    /\ UNCHANGED <<config, files, compiledCache, writes>>
    /\ UNCHANGED <<engineVars, appVars>>

\* The call resumes after `await this.renderTemplate(...)` and returns.
ResumeAfterLayout(c) ==
    /\ calls[c].pc = "awaitLayout"
    /\ calls' = [calls EXCEPT ![c].pc = "done"]
    /\ UNCHANGED <<config, files, templateCache, compiledCache, writes>>
    /\ UNCHANGED <<engineVars, appVars>>

\* clearCache() emptying the cached sources and keeping their keys.
clearCacheEmptyingEntries ==
    /\ templateCache' = [key \in DOMAIN templateCache |-> <<>>]
    /\ compiledCache' = <<>>
    /\ UNCHANGED <<config, files, calls, writes>>
    /\ UNCHANGED <<engineVars, appVars>>

\* clearCache()
clearCache ==
    /\ templateCache' = <<>>
    /\ compiledCache' = <<>>
    /\ UNCHANGED <<config, files, calls, writes>>
    /\ UNCHANGED <<engineVars, appVars>>

\* Someone rewrites a template file.
WriteFile ==
    /\ writes < MaxWrites
    /\ \E path \in WrittenPaths, src \in WrittenSources :
          files' = [files EXCEPT ![path] = File(src)]
    /\ writes' = writes + 1
    /\ UNCHANGED <<config, templateCache, compiledCache, calls>>
    /\ UNCHANGED <<engineVars, appVars>>

\* Someone removes a template file.
DeleteFile ==
    /\ writes < MaxWrites
    /\ \E path \in RemovedPaths :
          /\ existsSync(path)
          /\ files' = [files EXCEPT ![path] = NoFile]
    /\ writes' = writes + 1
    /\ UNCHANGED <<config, templateCache, compiledCache, calls>>
    /\ UNCHANGED <<engineVars, appVars>>

Next ==
    \/ \E c \in Slots : Render(c)
    \/ \E c \in Slots : ResumeAfterBody(c)
    \/ \E c \in Slots : ResumeAfterLayout(c)
    \/ clearCache
    \/ WriteFile
    \/ DeleteFile

Spec == Init /\ [][Next]_vars

---------------------------------------------------------------------------
(* Properties of processKenxTemplate (specification SpecEngine) *)

BindsString(d, k) == k \in DOMAIN d /\ d[k].t = "string"
LoopVarTemplate(b) == <<"L">> \o For("x", <<"e">>) \o b \o EndFor \o <<"R">>
CondTemplate(b) == <<"L">> \o If(<<"e">>) \o b \o EndIf \o <<"R">>

\* C1 (as claimed, of every copy): the raw pass runs before the escaped
\* pass, so {{{ e }}} is replaced by the unescaped string form of e with no
\* brace left behind, and
\* `Hello {{ name }}, you have {{{ count }}} items` renders to
\* `Hello &lt;Bo&gt;, you have <b>3</b> items`.
C1_RawBeforeEscapedInEveryCopy ==
    epc = "done" =>
        /\ (tpl = HelloTemplate /\ dat = BaseData => out = HelloOutput)
        /\ (tpl = Raw(<<"e">>) /\ BindsString(dat, "e")
                => passes[1] = dat["e"].s)

\* C2: the entity the claim gives for each character.
C2_Entity(c) ==
    IF c = "&" THEN <<"&", "amp", ";">>
    ELSE IF c = "<" THEN <<"&", "lt", ";">>
    ELSE IF c = ">" THEN <<"&", "gt", ";">>
    ELSE IF c = "\"" THEN <<"&", "quot", ";">>
    ELSE IF c = "'" THEN <<"&", "#", "39", ";">>
    ELSE <<c>>

\* C2: every character of v mapped once, in order.
RECURSIVE C2_Mapped(_)
C2_Mapped(v) == IF v = <<>> THEN <<>> ELSE C2_Entity(v[1]) \o C2_Mapped(Tail(v))

\* C2: in the framework copy, for every string value v bound to e, the
\* escaped pass replaces `{{ e }}` by v with each of & < > " ' replaced by
\* its entity, every character of v mapped exactly once and no other
\* character changed, and the raw pass replaces `{{{ e }}}` by v unchanged;
\* when v holds no brace that text is the output of the call.
C2_EscapedMapsOnceRawUnchanged ==
    (epc = "done" /\ copy = "framework" /\ BindsString(dat, "e")) =>
        LET v == dat["e"].s
        IN  /\ tpl = Esc(<<"e">>) =>
                 /\ passes[2] = C2_Mapped(v)
                 /\ ("{" \notin {v[i] : i \in 1..Len(v)} => out = C2_Mapped(v))
            /\ tpl = <<"a">> \o Esc(<<"e">>) \o <<"b">> =>
                 passes[2] = Norm(<<"a">> \o C2_Mapped(v) \o <<"b">>)
            /\ tpl = Raw(<<"e">>) =>
                 /\ passes[1] = v
                 /\ ("{" \notin {v[i] : i \in 1..Len(v)} => out = v)
            /\ tpl = <<"a">> \o Raw(<<"e">>) \o <<"b">> =>
                 passes[1] = Norm(<<"a">> \o v \o <<"b">>)

\* C2 witness: a value holding all five characters and an entity has been
\* escaped, and the & of the entity was mapped once.
C2_Witness ==
    /\ epc = "done" /\ copy = "framework"
    /\ tpl = Esc(<<"e">>)
    /\ dat = Extend(BaseData, "e",
                    Str(<<"a", "&", "amp", ";", "&", "lt", ";", "'", "b", "'">>))
    /\ out = <<"a", "&", "amp", ";", "amp", ";", "&", "amp", ";", "lt", ";",
               "&", "#", "39", ";", "b", "&", "#", "39", ";">>

\* C3: the concatenation, in sequence order, of the body expanded against
\* the child context of each element.
RECURSIVE C3_PerElement(_, _, _, _, _)
C3_PerElement(c, body, data, array, n) ==
    IF n > Len(array) THEN <<>>
    ELSE processKenxTemplate(c, body,
             loopData(data, "x", array[n], n - 1, Len(array)))
         \o C3_PerElement(c, body, data, array, n + 1)

\* C3 (as claimed): the directives of a loop body are evaluated against the
\* child context of their own iteration, and the block renders to the
\* concatenation of the per-element expansions; e.g.
\* `{% for x in xs %}{{ x }}{% endfor %}` with xs = [a, b, c] and no
\* binding named x renders to `abc`.
C3_BodyEvaluatedInChildContext ==
    epc = "done" =>
        /\ (tpl = For("x", <<"xs">>) \o Esc(<<"x">>) \o EndFor
                => out = <<"abc">>)
        /\ \A b \in Bodies :
              (tpl = LoopVarTemplate(b) /\ Get(dat, "e").t = "array")
                => out = Norm(<<"L">>
                              \o C3_PerElement(copy, b, dat, dat["e"].a, 1)
                              \o <<"R">>)

\* C4: the single-loop templates, each with its loop variable and the key
\* its sequence is bound to.
C4_Loops ==
    { [tpl |-> LoopVarTemplate(b), itemVar |-> "x", key |-> "e"] : b \in Bodies }
    \cup { [tpl |-> For("name", <<"xs">>) \o <<"A">> \o EndFor \o Esc(<<"name">>),
            itemVar |-> "name", key |-> "xs"] }

\* C4: a loop over a sequence of n elements with loop variable x (not
\* index, first or last) makes exactly n expansions of its body, and the
\* context of the k-th (zero-based) binds x to the k-th element, index to
\* k, first to (k = 0), last to (k = n-1), and every other parent binding to
\* its parent value; a body `A` is emitted n times.
C4_LoopContextPerElement ==
    epc = "done" =>
        \A l \in C4_Loops :
            (tpl = l.tpl /\ Get(dat, l.key).t = "array") =>
                LET array == dat[l.key].a
                    n == Len(array)
                IN  /\ Len(expansions) = n
                    /\ \A k \in 0..(n - 1) :
                          LET d == expansions[k + 1].data
                          IN  /\ DOMAIN d = DOMAIN dat
                                    \cup {l.itemVar, "index", "first", "last"}
                              /\ d[l.itemVar] = array[k + 1]
                              /\ d["index"] = Num(k)
                              /\ d["first"] = Bool(k = 0)
                              /\ d["last"] = Bool(k = n - 1)
                              /\ \A key \in DOMAIN dat \
                                    {l.itemVar, "index", "first", "last"} :
                                    d[key] = dat[key]
                    /\ (tpl = LoopVarTemplate(<<"A">>) =>
                            out = Norm(<<"L">> \o [i \in 1..n |-> "A"] \o <<"R">>))

\* C4 witness: the loop over [a, b, c] has run, and its second expansion
\* had x = b, index = 1, first = false, last = false.
C4_Witness ==
    /\ epc = "done"
    /\ tpl = LoopVarTemplate(<<"A">>)
    /\ dat = Extend(BaseData, "e", A3)
    /\ Len(expansions) = 3
    /\ expansions[2].data["x"] = Str(<<"b">>)
    /\ expansions[2].data["index"] = Num(1)
    /\ expansions[2].data["first"] = Bool(FALSE)
    /\ expansions[2].data["last"] = Bool(FALSE)
    /\ expansions[2].data["name"] = BaseData["name"]
    /\ out = <<"LAAAR">>

\* C5: the values the claim lists as falsy.
C5_Falsy(v) == v \in {Str(<<>>), Num(0), Undef, Null, Bool(FALSE)}

\* C5: the body of the block of CondTemplate(b) as it stands in buffer buf
\* (the head and the tail of the template hold no interpolation).
C5_Body(buf, b) ==
    SubSeq(buf, Len(<<"L">> \o If(<<"e">>)) + 1, Len(buf) - Len(EndIf \o <<"R">>))

\* C5: the conditional pass replaces `{% if e %} body {% endif %}` by the
\* empty string when e is falsy (empty string, zero, absence, false) and,
\* for every other value, empty sequence and empty map included, by the
\* result of the whole processor run again on the body against the same
\* context.
C5_ConditionalContribution ==
    epc = "done" =>
        \A b \in Bodies :
            tpl = CondTemplate(b) =>
                LET buf == passes[2]
                    body == C5_Body(buf, b)
                IN  /\ buf = <<"L">> \o If(<<"e">>) \o body \o EndIf \o <<"R">>
                    /\ passes[3] =
                         Norm(<<"L">>
                              \o (IF C5_Falsy(Get(dat, "e")) THEN <<>>
                                  ELSE processKenxTemplate(copy, body, dat))
                              \o <<"R">>)

\* C5 witness: e is the empty sequence and the directive inside the body
\* has been resolved.
C5_Witness ==
    /\ epc = "done" /\ copy = "framework"
    /\ tpl = CondTemplate(<<"(">> \o Esc(<<"name">>) \o <<")">>)
    /\ dat = Extend(BaseData, "e", Arr(<<>>))
    /\ out = <<"L", "(", "&", "lt", ";", "Bo", "&", "gt", ";", ")", "R">>

\* C7: a loop whose expression does not evaluate to a sequence (a scalar,
\* a string, a map, absence, an expression that fails to evaluate) is
\* replaced by the empty string, and the call returns.
C7_NonSequenceLoopIsEmpty ==
    epc = "done" =>
        /\ \A b \in Bodies :
              (tpl = LoopVarTemplate(b) /\ Get(dat, "e").t # "array")
                => out = <<"LR">>
        /\ (/\ tpl = For("x", <<"e", ".", "k">>) \o <<"A">> \o EndFor
             /\ Prop(Get(dat, "e"), "k").t # "array")
                => out = <<>>
        /\ tpl = For("x", <<"e", " ", "e">>) \o <<"A">> \o EndFor
                => out = <<>>

\* C7 witness: loops over a string, over a map, over an unbound name and
\* over a member of an absent value have each been replaced by nothing.
C7_Witness ==
    /\ epc = "done" /\ copy = "framework"
    /\ \/ /\ tpl = LoopVarTemplate(<<"A">>)
          /\ dat = Extend(BaseData, "e", Str(<<"a">>))
          /\ out = <<"LR">>
       \/ /\ tpl = For("x", <<"e", ".", "k">>) \o <<"A">> \o EndFor
          /\ dat = BaseData
          /\ out = <<>>

---------------------------------------------------------------------------
(* Properties of render() (specification Spec) *)

\* No pattern of the four passes matches anywhere in t.
DirectiveFree(t) ==
    \A i \in 1..Len(t) :
        /\ ~RawMatch(t, i).ok
        /\ ~EscapedMatch(t, i).ok
        /\ ~CondMatch(t, i).ok
        /\ ~LoopMatch(t, i).ok

\* The steps a call has logged.
Logged(call) == {call.log[i] : i \in DOMAIN call.log}

\* The call loaded its layout, from storage or from the cache.
LayoutApplied(call) ==
    \/ Access("read", call.layoutPath) \in Logged(call)
    \/ Access("cacheGet", call.layoutPath) \in Logged(call)

\* No layout is in effect for the call: none requested and no default
\* layout, or layout suppressed.
NoLayoutInEffect(call) ==
    \/ call.layout = Undef /\ config.defaultLayout = <<>>
    \/ call.layout = Bool(FALSE)

\* C6: a returned render() of a template source holding no directive, with
\* no layout in effect, returns that source character for character, with
\* the cache on or off (and, while no file has been changed, that source is
\* the file on disk).
C6_DirectiveFreeVerbatim ==
    \A c \in DOMAIN calls :
        LET call == calls[c]
        IN  (call.pc = "done" /\ DirectiveFree(call.template)
             /\ NoLayoutInEffect(call)) =>
                /\ call.content = call.template
                /\ (writes = 0 =>
                      call.content
                        = InitialFiles[resolveTemplatePath(call.name)].src)

\* C6 witness: with the cache on and a default layout configured, the
\* directive-free template has been rendered twice with layout: false, once
\* from storage and once from the cache, and came back verbatim each time.
C6_Witness ==
    /\ config.cache /\ config.defaultLayout = <<"main">>
    /\ \A c \in {1, 2} :
          /\ calls[c].pc = "done"
          /\ calls[c].name = <<"plain", ".kenx">>
          /\ calls[c].layout = Bool(FALSE)
          /\ calls[c].content = PlainSource
    /\ Access("read", PlainPath) \in Logged(calls[1])
    /\ Access("cacheGet", PlainPath) \in Logged(calls[2])

\* C8: a returned render(T, data, {layout: L}) resolved L itself, whatever
\* the default layout; when L exists it was loaded, and the call returns L
\* processed (no further layout) against data extended with body bound to
\* the processed T, body replacing any body key of the caller.
C8_LayoutComposition ==
    \A c \in DOMAIN calls :
        LET call == calls[c]
        IN  (call.pc = "done" /\ Truthy(call.layout)) =>
                /\ call.layoutPath = resolveLayoutPath(call.layout.s)
                /\ (Access("found", call.layoutPath) \in Logged(call)
                        => LayoutApplied(call))
                /\ (LayoutApplied(call) =>
                      /\ call.body
                           = processKenxTemplate("framework", call.template,
                                                 call.data)
                      /\ call.content
                           = processKenxTemplate(
                                 "framework", call.layoutTemplate,
                                 [key \in DOMAIN call.data \cup {"body"} |->
                                     IF key = "body" THEN Str(call.body)
                                     ELSE call.data[key]]))
                /\ (writes = 0 =>
                      /\ LayoutApplied(call)
                      /\ call.template
                           = InitialFiles[resolveTemplatePath(call.name)].src
                      /\ call.layoutTemplate
                           = InitialFiles[call.layoutPath].src)

\* C8 witness: with main the default layout, one call asked for layout alt
\* and got the alt layout around its body, and one call whose data carries
\* body = "mine" asked for layout main and got its rendered template, not
\* "mine", inside the layout.
C8_Witness ==
    /\ config.defaultLayout = <<"main">>
    /\ \E c \in DOMAIN calls :
          /\ calls[c].pc = "done"
          /\ calls[c].name = <<"home">>
          /\ calls[c].data = PlainData
          /\ calls[c].layout = Str(<<"alt">>)
          /\ calls[c].content
               = <<"[", "&", "lt", ";", "Bo", "&", "gt", ";", ":", "Hello", " ",
                   "&", "lt", ";", "Bo", "&", "gt", ";", "]">>
    /\ \E c \in DOMAIN calls :
          /\ calls[c].pc = "done"
          /\ calls[c].name = <<"home">>
          /\ calls[c].data = BodyData
          /\ calls[c].layout = Str(<<"main">>)
          /\ calls[c].content
               = <<"<", "main", ">", "Hello", " ", "Al", "<", "/", "main", ">">>

\* C9: a render(T, data, {layout: false}) touches nothing but the template
\* T: it resolves no layout path, checks, reads and caches no layout, and
\* what it returns is the body processKenxTemplate made of T.
C9_LayoutFalseTouchesNoLayout ==
    \A c \in DOMAIN calls :
        LET call == calls[c]
        IN  call.layout = Bool(FALSE) =>
                /\ \A a \in Logged(call) :
                      /\ a.path = resolveTemplatePath(call.name)
                      /\ a.op # "resolveLayout"
                /\ call.layoutPath = <<>>
                /\ call.layoutTemplate = <<>>
                /\ (call.pc = "done" =>
                      /\ call.content = call.body
                      /\ call.body
                           = processKenxTemplate("framework", call.template,
                                                 call.data))

\* C9 witness: with the cache on, main the default layout and its file in
\* place, a call with layout: false has returned the bare body and the
\* layout is not in the cache.
C9_Witness ==
    /\ config.cache /\ config.defaultLayout = <<"main">>
    /\ existsSync(MainPath)
    /\ CacheKey(MainPath) \notin DOMAIN templateCache
    /\ \E c \in DOMAIN calls :
          /\ calls[c].pc = "done"
          /\ calls[c].name = <<"home">>
          /\ calls[c].layout = Bool(FALSE)
          /\ calls[c].content = <<"Hello", " ", "Al">>

\* C10: a call that resolved a layout path (asked for per call or by
\* default) and found no file there has returned, without error, the body
\* of its template unchanged; it touched no other layout and neither read
\* nor cached the missing one.
C10_MissingLayoutSkipped ==
    \A c \in DOMAIN calls :
        LET call == calls[c]
        IN  (call.layoutPath # <<>>
             /\ Access("missing", call.layoutPath) \in Logged(call)) =>
                /\ call.pc = "done"
                /\ call.error = ""
                /\ call.content = call.body
                /\ call.body = processKenxTemplate("framework", call.template,
                                                   call.data)
                /\ call.layoutTemplate = <<>>
                /\ \A a \in Logged(call) :
                      \/ a.path = resolveTemplatePath(call.name)
                      \/ /\ a.path = call.layoutPath
                         /\ a.op \in {"resolveLayout", "missing"}

\* C10 witness: main is the default layout and its file is in place, the
\* alt layout a call asked for is missing, and the call returned the body of
\* its template, not wrapped in main.
C10_Witness ==
    /\ config.defaultLayout = <<"main">>
    /\ existsSync(MainPath)
    /\ \E c \in DOMAIN calls :
          /\ calls[c].pc = "done"
          /\ calls[c].error = ""
          /\ calls[c].name = <<"home">>
          /\ calls[c].layout = Str(<<"alt">>)
          /\ calls[c].layoutPath = AltPath
          /\ Access("missing", AltPath) \in Logged(calls[c])
          /\ calls[c].content
               = <<"Hello", " ", "&", "lt", ";", "Bo", "&", "gt", ";">>


\* C11: whatever the cache holds, a render(name, ...) called while no file
\* is at the resolved template path fails with "Template not found": it
\* made its existence checks and nothing else (no read, no cache access,
\* no dispatch), it has no output, and the template cache is as it was.
C11_MissingTemplateFails ==
    [][\A c \in DOMAIN calls :
          (/\ calls[c].pc = "idle"
           /\ calls'[c].pc # "idle"
           /\ ~existsSync(resolveTemplatePath(calls'[c].name))) =>
              /\ calls'[c].pc = "failed"
              /\ calls'[c].error = "Template not found"
              /\ calls'[c].content = <<>>
              /\ calls'[c].body = <<>>
              /\ \A a \in Logged(calls'[c]) :
                    a = Access("missing",
                               resolveTemplatePath(calls'[c].name))
              /\ templateCache' = templateCache]_vars

\* C11 witness: the template is in the cache, its file is gone, and a call
\* for it has failed with "Template not found" and no output.
C11_Witness ==
    /\ config.cache
    /\ CacheKey(HomePath) \in DOMAIN templateCache
    /\ ~existsSync(HomePath)
    /\ \E c \in DOMAIN calls :
          /\ calls[c].pc = "failed"
          /\ calls[c].name = <<"home">>
          /\ calls[c].error = "Template not found"
          /\ calls[c].content = <<>>
          /\ Access("missing", HomePath) \in Logged(calls[c])


\* The template with this path is in the cache: with caching enabled it has
\* been rendered since the cache was last cleared.
Cached(path) == config.cache /\ CacheKey(path) \in DOMAIN templateCache

\* Call c starts in this step.
Starts(c) == calls[c].pc = "idle" /\ calls'[c].pc # "idle"

\* C12 (as claimed): with caching enabled, a render of a template that is
\* in the cache uses the source the cache holds (the one read when it was
\* first rendered), whatever has happened to the file since, and a render
\* of a template that is not in the cache (none yet, or clearCache() was
\* called) uses the content on disk at that moment.
C12_CachedSourceUntilCleared ==
    [][\A c \in DOMAIN calls :
          (Starts(c) /\ config.cache /\ config.engine = "kenx") =>
              LET path == resolveTemplatePath(calls'[c].name)
              IN  /\ Cached(path) =>
                        /\ calls'[c].pc = "awaitBody"
                        /\ calls'[c].template = templateCache[CacheKey(path)]
                        /\ calls'[c].body
                             = processKenxTemplate(
                                   "framework", templateCache[CacheKey(path)],
                                   calls'[c].data)
                  /\ (~Cached(path) /\ existsSync(path)) =>
                        /\ calls'[c].pc = "awaitBody"
                        /\ calls'[c].template = files[path].src
                        /\ templateCache'[CacheKey(path)] = files[path].src
      ]_vars


\* C13 (as claimed): with caching enabled, a render whose template is in
\* the cache makes its output from the stored source without touching
\* storage: its only step is the cache lookup (no existence check, no
\* read), so it goes on whether or not the file still exists.
C13_CacheHitTouchesNoStorage ==
    [][\A c \in DOMAIN calls :
          (/\ Starts(c)
           /\ config.engine = "kenx"
           /\ Cached(resolveTemplatePath(calls'[c].name))) =>
              /\ calls'[c].pc = "awaitBody"
              /\ calls'[c].log
                   = <<Access("cacheGet", resolveTemplatePath(calls'[c].name))>>
              /\ calls'[c].body
                   = processKenxTemplate(
                         "framework",
                         templateCache[CacheKey(
                             resolveTemplatePath(calls'[c].name))],
                         calls'[c].data)
      ]_vars


\* The sources a call may fetch for path in this step: the file on disk
\* and, with caching enabled, the cached source.
Fetchable(path) ==
    (IF existsSync(path) THEN {files[path].src} ELSE {})
    \cup (IF Cached(path) THEN {templateCache[CacheKey(path)]} ELSE {})

\* C14: clearCache() leaves both cache maps empty, whenever it is called
\* (cache empty, caching disabled, a call between its body and its layout).
\* Whatever the cache holds, a call fails only at its start and only for a
\* missing template file or an unsupported engine, and the body and the
\* layout of a call are made from a source that was on disk or in the
\* cache in the step that fetched it.
C14_ClearCacheIsSafe ==
    [][/\ clearCache => (templateCache' = <<>> /\ compiledCache' = <<>>)
       /\ \A c \in DOMAIN calls :
             /\ calls'[c].pc = "failed" =>
                   \/ calls[c].pc = "failed"
                   \/ /\ Starts(c)
                      /\ \/ ~existsSync(resolveTemplatePath(calls'[c].name))
                         \/ config.engine # "kenx"
             /\ (Starts(c) /\ calls'[c].pc = "awaitBody") =>
                   /\ calls'[c].template
                         \in Fetchable(resolveTemplatePath(calls'[c].name))
                   /\ calls'[c].body
                         = processKenxTemplate("framework", calls'[c].template,
                                               calls'[c].data)
             /\ (calls[c].pc = "awaitBody" /\ calls'[c].pc = "awaitLayout") =>
                   /\ calls'[c].layoutTemplate
                         \in Fetchable(calls'[c].layoutPath)
                   /\ calls'[c].content
                         = processKenxTemplate("framework",
                                               calls'[c].layoutTemplate,
                                               LayoutData(calls[c]))
      ]_vars

\* C14 witness: with caching enabled a single call cached its template and
\* then its layout, and only the layout is in the cache: clearCache() ran
\* between the body and the layout of the call, which returned its body
\* inside the layout.
C14_Witness ==
    /\ config.cache
    /\ calls[2].pc = "idle"
    /\ calls[1].pc = "done"
    /\ calls[1].name = <<"home">>
    /\ Access("cacheSet", HomePath) \in Logged(calls[1])
    /\ Access("cacheSet", MainPath) \in Logged(calls[1])
    /\ DOMAIN templateCache = {CacheKey(MainPath)}
    /\ calls[1].content
         = <<"<", "main", ">", "Hello", " ", "Al", "<", "/", "main", ">">>


---------------------------------------------------------------------------
(* Further properties of processKenxTemplate (specification SpecEngine) *)

\* C15: expressions that fail for some data: a member of an unbound name,
\* a malformed expression, members of a value that may be absent.
C15_Exprs ==
    { <<"u", ".", "k">>, <<"e", " ", "e">>, <<"e", ".", "k">>,
      <<"e", ".", "k", ".", "k">> }

\* C15 (as claimed): an interpolation whose expression fails to evaluate
\* (malformed, unbound name, access through an absent value) is left in the
\* output as its own source text.
C15_FailedDirectiveLeftAsIs ==
    epc = "done" =>
        \A x \in C15_Exprs :
            (tpl \in {Esc(x), Raw(x)} /\ Tier1Throws(x, dat)) => out = tpl


---------------------------------------------------------------------------
(* Further properties of render() (specification Spec) *)

\* C16: a render() call fails exactly when, at its start, its template
\* file is missing or the configured engine is not supported, and a failed
\* call has no output at all; a call that started otherwise never fails,
\* however many of its directives fail to evaluate, and what it returns is
\* the output of processKenxTemplate.
C16_FailsOnlyOnTemplateOrEngine ==
    [][\A c \in DOMAIN calls :
          /\ Starts(c) =>
                (calls'[c].pc = "failed"
                    <=> \/ ~existsSync(resolveTemplatePath(calls'[c].name))
                        \/ config.engine # "kenx")
          /\ calls'[c].pc = "failed" =>
                /\ calls'[c].content = <<>>
                /\ calls'[c].body = <<>>
                /\ calls'[c].error
                     \in {"Template not found", "Unsupported template engine"}
                /\ calls[c].pc \in {"idle", "failed"}
          /\ calls'[c].pc \in {"awaitBody", "awaitLayout", "done"} =>
                calls'[c].error = ""
          /\ (Starts(c) /\ calls'[c].pc # "failed") =>
                calls'[c].body
                  = processKenxTemplate("framework", calls'[c].template,
                                        calls'[c].data)
      ]_vars

\* C16 witness: the template with two failing directives has been rendered
\* and returned (the failing directives gave nothing, the third its value),
\* and another call, for a template that is not there, failed with no
\* output.
C16_Witness ==
    /\ \E c \in DOMAIN calls :
          /\ calls[c].pc = "done"
          /\ calls[c].name = <<"broken">>
          /\ calls[c].layout = Bool(FALSE)
          /\ calls[c].error = ""
          /\ calls[c].content = <<"ABCAl">>
    /\ \E c \in DOMAIN calls :
          /\ calls[c].pc = "failed"
          /\ calls[c].name = <<"nope">>
          /\ calls[c].content = <<>>


\* What render(name, data, {layout}) returns when it runs alone on the
\* starting file system.
C17_Alone(call) ==
    LET body == processKenxTemplate(
                    "framework",
                    InitialFiles[resolveTemplatePath(call.name)].src,
                    call.data)
    IN  IF LayoutWanted(call)
        THEN processKenxTemplate(
                 "framework",
                 InitialFiles[resolveLayoutPath(LayoutName(call))].src,
                 [key \in DOMAIN call.data \cup {"body"} |->
                     IF key = "body" THEN Str(body) ELSE call.data[key]])
        ELSE body

\* C17: however the calls interleave, what a call returns is made of its
\* own name, data and layout option and of the sources it fetched: its body
\* is its template processed with its data, its content its layout
\* processed with its data and its body (or the body itself).  While no
\* file has been changed, every cached source is the file's content and
\* every call returns what it returns when run alone.
C17_CallsAreIndependent ==
    /\ \A c \in DOMAIN calls :
          LET call == calls[c]
          IN  call.pc = "done" =>
                /\ call.body = processKenxTemplate("framework", call.template,
                                                   call.data)
                /\ call.content
                     = IF LayoutApplied(call)
                       THEN processKenxTemplate(
                                "framework", call.layoutTemplate,
                                [key \in DOMAIN call.data \cup {"body"} |->
                                    IF key = "body" THEN Str(call.body)
                                    ELSE call.data[key]])
                       ELSE call.body
                /\ (writes = 0 => call.content = C17_Alone(call))
    /\ writes = 0 =>
          \A path \in Paths :
              CacheKey(path) \in DOMAIN templateCache =>
                  templateCache[CacheKey(path)] = InitialFiles[path].src

\* C17 witness: with caching enabled and no file changed, the second call
\* for the template started and returned, with its own data inside the
\* layout, while the first call for the same template, with other data,
\* was still waiting for its layout.
C17_Witness ==
    /\ config.cache /\ writes = 0
    /\ calls[1].pc = "awaitLayout"
    /\ calls[1].name = <<"home">>
    /\ calls[1].data = PlainData
    /\ calls[1].layout = Str(<<"alt">>)
    /\ calls[2].pc = "done"
    /\ calls[2].name = <<"home">>
    /\ calls[2].data = BodyData
    /\ calls[2].layout = Str(<<"main">>)
    /\ calls[2].content
         = <<"<", "main", ">", "Hello", " ", "Al", "<", "/", "main", ">">>
    /\ Access("cacheGet", HomePath) \in Logged(calls[2])


\* C18: when the configured engine has no backend, every render call
\* fails with "Unsupported template engine" and returns nothing, whether
\* or not a file is at the path resolved for the template name.
C18_UnsupportedEngineAlwaysFails ==
    [][ \A c \in DOMAIN calls :
          (Starts(c) /\ config.engine # "kenx") =>
              /\ calls'[c].pc = "failed"
              /\ calls'[c].error = "Unsupported template engine"
              /\ calls'[c].content = <<>> ]_vars


---------------------------------------------------------------------------
(* Properties of the text substituted by processKenxTemplate *)

\* C19: the text put in place of an interpolation is final: for the
\* source {{{ e }}} with e bound to a string, the call returns that string
\* as it is, and returns the same when w, which the source does not name,
\* is bound to something else.
C19_SubstitutedTextIsFinal ==
    (/\ epc = "done"
     /\ copy = "framework"
     /\ tpl = Raw(<<"e">>)
     /\ BindsString(dat, "e"))
    => /\ out = Norm(dat["e"].s)
       /\ out = processKenxTemplate(copy, tpl,
                                    Extend(dat, "w", Str(<<"q">>)))


---------------------------------------------------------------------------
(* Properties of the recursion of processKenxTemplate *)

\* The number of characters of a text.
RECURSIVE C20_Length(_)
C20_Length(s) == IF s = <<>> THEN 0 ELSE Len(s[1]) + C20_Length(Tail(s))

\* The recursive calls of the outermost call: those of its conditional
\* pass, then those of its loop pass.
C20_Calls == CondExpansions(passes[2], 1, dat) \o expansions

\* The source has no block directive.
C20_NoBlock(s) ==
    \A i \in 1..Len(s) : ~CondMatch(s, i).ok /\ ~LoopMatch(s, i).ok

\* C20: every recursive call of the processor runs on a fragment strictly
\* shorter than the template source, and the data cannot add recursion: a
\* source with no block directive makes no recursive call.
C20_RecursionBoundedBySource ==
    (epc = "done" /\ copy = "framework")
    => /\ \A n \in DOMAIN C20_Calls :
             C20_Length(C20_Calls[n].content) < C20_Length(tpl)
       /\ C20_NoBlock(tpl) => C20_Calls = <<>>


---------------------------------------------------------------------------
(* Properties of the layout pass *)

\* The accesses of a log whose operation is one of ops, in order.
RECURSIVE C21_Select(_, _)
C21_Select(log, ops) ==
    IF log = <<>> THEN <<>>
    ELSE (IF log[1].op \in ops THEN <<log[1]>> ELSE <<>>)
         \o C21_Select(Tail(log), ops)

\* The backend passes of a call: each fetches its source by a read or by
\* a cache hit.
C21_Passes(call) == C21_Select(call.log, {"read", "cacheGet"})

\* C21: a render call resolves a layout at most once and makes at most two
\* backend passes, the first over its template and the second, if any,
\* over the layout it resolved; what it returns is the result of the last
\* pass, even when a default layout is configured.
C21_LayoutAppliedAtMostOnce ==
    \A c \in DOMAIN calls :
        LET call == calls[c]
            passes_ == C21_Passes(call)
        IN  /\ Len(C21_Select(call.log, {"resolveLayout"})) <= 1
            /\ Len(passes_) <= 2
            /\ Len(passes_) >= 1 =>
                   passes_[1].path = resolveTemplatePath(call.name)
            /\ Len(passes_) = 2 =>
                   /\ passes_[2].path = call.layoutPath
                   /\ call.pc \in {"awaitLayout", "done"}
                   /\ call.content
                        = processKenxTemplate(
                              "framework", call.layoutTemplate,
                              Extend(call.data, "body", Str(call.body)))

\* C21 witness: with the default layout "main" configured, a call given no
\* layout option returned its body inside the layout once, after two
\* passes.
C21_Witness ==
    \E c \in DOMAIN calls :
        /\ config.defaultLayout = <<"main">>
        /\ calls[c].pc = "done"
        /\ calls[c].name = <<"home">>
        /\ calls[c].layout = Undef
        /\ Len(C21_Passes(calls[c])) = 2
        /\ calls[c].content
             = <<"<", "main", ">", "Hello", " ", "&", "lt", ";", "Bo", "&",
                 "gt", ";", "<", "/", "main", ">">>


---------------------------------------------------------------------------
(* Properties of the child contexts *)

\* The names a loop iteration binds for the loop variable itemVar.
C22_LoopLocal(itemVar) == {itemVar, "index", "first", "last"}

\* The contexts of the iterations of the loops of a call's template.
C22_Iterations(call) ==
    LoopExpansions(PassResults("framework", call.template, call.data)[3], 1,
                   call.data)

\* C22: the data a caller gave to render() holds the same bindings with
\* the same values at every later step of the call, the layout pass
\* included.  For the template `{% for name in xs %}A{% endfor %}{{ name }}`
\* the context of an iteration is the caller's data with the loop-local
\* names added, every other binding as the caller gave it, and after the
\* loop `name` has the caller's value again.
C22_ChildBindingsStayLocal ==
    [][\A c \in DOMAIN calls :
         /\ calls[c].pc # "idle" => calls'[c].data = calls[c].data
         /\ (/\ Starts(c)
             /\ calls'[c].pc = "awaitBody"
             /\ calls'[c].template = LoopSource
             /\ "xs" \in DOMAIN calls'[c].data) =>
               LET call == calls'[c]
                   its == C22_Iterations(call)
               IN  /\ Len(its) = Len(call.data["xs"].a)
                   /\ \A n \in DOMAIN its :
                         /\ DOMAIN its[n].data
                              = DOMAIN call.data \cup C22_LoopLocal("name")
                         /\ \A key \in DOMAIN call.data
                                        \ C22_LoopLocal("name") :
                               its[n].data[key] = call.data[key]
                   /\ call.body
                        = Norm([n \in DOMAIN its |-> "A"]
                               \o EscapeHtml(call.data["name"].s))
      ]_vars

\* C22 witness: a call rendered the loop template inside the layout "alt"
\* and returned; the layout shows the caller's name before the body and
\* the body shows it after the three iterations, and the call's data is
\* the data given, without a body binding.
C22_Witness ==
    \E c \in DOMAIN calls :
        /\ calls[c].pc = "done"
        /\ calls[c].name = <<"loop">>
        /\ calls[c].data = PlainData
        /\ "body" \notin DOMAIN calls[c].data
        /\ LayoutApplied(calls[c])
        /\ calls[c].layoutPath = AltPath
        /\ calls[c].body
             = Norm(<<"A", "A", "A", "&", "lt", ";", "Bo", "&", "gt", ";">>)
        /\ calls[c].content
             = Norm(<<"[", "&", "lt", ";", "Bo", "&", "gt", ";", ":">>
                    \o calls[c].body \o <<"]">>)


\* The loop template whose loop variable is itemVar, over xs.
C23_Template(itemVar) == For(itemVar, <<"xs">>) \o <<"A">> \o EndFor

\* C23: whatever the declared name of the loop variable, `index` included,
\* the context of each iteration binds that name to the current element.
C23_LoopVariableBoundToElement ==
    epc = "done" =>
        \A itemVar \in {"x", "name", "index", "first", "last"} :
            tpl = C23_Template(itemVar) =>
                /\ Len(expansions) = Len(dat["xs"].a)
                /\ \A n \in DOMAIN expansions :
                      expansions[n].data[itemVar] = dat["xs"].a[n]


---------------------------------------------------------------------------
(* Properties of the block patterns *)

\* {% if e %}X{% if name %}Y{% endif %}Z{% endif %}
C24_Nested ==
    If(<<"e">>) \o <<"X">> \o If(<<"name">>) \o <<"Y">> \o EndIf
    \o <<"Z">> \o EndIf

\* C24: the body of a conditional ends at the first {% endif %} after its
\* head: no body the conditional pass matches holds an {% endif %}.  For
\* C24_Nested the outer head pairs with the first {% endif %}: when e is
\* truthy the inner head stays in the output as text, and in both cases so
\* does the trailing Z{% endif %}.
C24_ConditionalsDoNotNest ==
    epc = "done" =>
        /\ \A i \in 1..Len(passes[2]) :
              CondMatch(passes[2], i).ok =>
                  \A k \in 1..Len(CondMatch(passes[2], i).content) :
                      ~EndTag(CondMatch(passes[2], i).content, k, "endif").ok
        /\ tpl = C24_Nested =>
              out = IF "e" \in DOMAIN dat /\ Truthy(dat["e"])
                    THEN Norm(<<"X">> \o If(<<"name">>) \o <<"Y", "Z">>
                              \o EndIf)
                    ELSE Norm(<<"Z">> \o EndIf)

\* C24 witness: C24_Nested was processed with e truthy and the inner head
\* is in the output.
C24_Witness ==
    /\ epc = "done"
    /\ tpl = C24_Nested
    /\ "e" \in DOMAIN dat /\ dat["e"] = Num(3)
    /\ out = Norm(<<"X">> \o If(<<"name">>) \o <<"Y", "Z">> \o EndIf)


---------------------------------------------------------------------------
(* Properties of evaluateExpression *)

\* The dotted paths of the templates that are one interpolation.
C25_Paths ==
    { <<"e">>, <<"e", ".", "k">>, <<"e", ".", "k", ".", "k">>,
      <<"u", ".", "k">>, <<"name">>,
      <<"constructor">>, <<"constructor", ".", "name">> }

\* The traversal of a context key by key: the value bound under the last
\* key, absence as soon as a step is not bound.
RECURSIVE C25_Reach(_, _)
C25_Reach(v, keys) ==
    IF keys = <<>> THEN v
    ELSE IF v.t = "object" /\ keys[1] \in DOMAIN v.m
    THEN C25_Reach(v.m[keys[1]], Tail(keys))
    ELSE Undef

\* C25: for the template {{ path }} or {{{ path }}}, the evaluator returns
\* what the traversal of the context along the path reaches, absence when
\* the first key is unbound or a step is undefined, and the interpolation
\* of an absent value is the empty string.
C25_PathTraversal ==
    (epc = "done" /\ copy = "framework") =>
        \A path \in C25_Paths :
            tpl \in {Esc(path), Raw(path)} =>
                /\ evaluateExpression(path, dat)
                     = C25_Reach(Obj(dat), PathKeys(path))
                /\ IsNullish(C25_Reach(Obj(dat), PathKeys(path)))
                      => out = <<>>


---------------------------------------------------------------------------
(* Properties of the template cache *)

\* C26: a step keeps every cache entry with its value or, being
\* clearCache(), removes them all; an entry is added only with caching
\* enabled, under the key of a path that had no entry, and holds the
\* content the file at that path has in that step.
C26_CacheEntriesAreImmutable ==
    [][/\ \A key \in DOMAIN templateCache :
             IF key \in DOMAIN templateCache'
             THEN templateCache'[key] = templateCache[key]
             ELSE clearCache
       /\ \A key \in DOMAIN templateCache' \ DOMAIN templateCache :
             /\ config.cache
             /\ \E path \in Paths :
                   /\ key = CacheKey(path)
                   /\ existsSync(path)
                   /\ templateCache'[key] = files[path].src
      ]_vars

\* C26 witness: the cache still holds the first source of home.kenx after
\* the file was rewritten and a second call rendered it from the cache.
C26_Witness ==
    /\ config.cache
    /\ CacheKey(HomePath) \in DOMAIN templateCache
    /\ templateCache[CacheKey(HomePath)] = HomeSource
    /\ files[HomePath] = File(PlainSource)
    /\ calls[2].pc = "done"
    /\ calls[2].template = HomeSource
    /\ Access("cacheGet", HomePath) \in Logged(calls[2])


\* C27: with the cache flag off both cache maps stay empty, no call looks
\* in the cache or stores in it, and the template and the layout of a call
\* are the content the file has in the step that renders it.
C27_CacheOffReadsStorage ==
    [][~config.cache =>
         /\ templateCache' = <<>> /\ compiledCache' = <<>>
         /\ \A c \in DOMAIN calls :
               /\ \A n \in DOMAIN calls'[c].log :
                     calls'[c].log[n].op \notin {"cacheGet", "cacheSet"}
               /\ (Starts(c) /\ calls'[c].pc = "awaitBody") =>
                     /\ calls'[c].template
                          = files[resolveTemplatePath(calls'[c].name)].src
                     /\ Access("read", resolveTemplatePath(calls'[c].name))
                          \in Logged(calls'[c])
               /\ (calls[c].pc = "awaitBody"
                   /\ calls'[c].pc = "awaitLayout") =>
                     /\ calls'[c].layoutTemplate
                          = files[calls'[c].layoutPath].src
                     /\ Access("read", calls'[c].layoutPath)
                          \in Logged(calls'[c])
      ]_vars

\* C27 witness: caching was not configured and the flag is off; home.kenx
\* was rewritten between two calls for it, and the second call, the very
\* next render, used the new content, in the default layout.
C27_Witness ==
    /\ ~config.cache
    /\ config.defaultLayout = <<"main">>
    /\ templateCache = <<>>
    /\ files[HomePath] = File(PlainSource)
    /\ calls[1].pc = "done"
    /\ calls[1].name = <<"home">>
    /\ calls[1].template = HomeSource
    /\ calls[2].pc = "done"
    /\ calls[2].name = <<"home">>
    /\ calls[2].template = PlainSource
    /\ calls[2].layoutTemplate = MainLayout
    /\ LayoutApplied(calls[2])


\* What an engine that never caches returns for the call on the files as
\* they are: the error it throws, or the content.
C28_Uncached(call) ==
    LET templatePath == resolveTemplatePath(call.name)
        layoutPath == resolveLayoutPath(LayoutName(call))
        body == processKenxTemplate("framework", files[templatePath].src,
                                    call.data)
    IN  IF ~existsSync(templatePath)
        THEN [error |-> "Template not found", content |-> <<>>]
        ELSE IF config.engine # "kenx"
        THEN [error |-> "Unsupported template engine", content |-> <<>>]
        ELSE IF LayoutWanted(call) /\ existsSync(layoutPath)
        THEN [error |-> "",
              content |-> processKenxTemplate(
                              "framework", files[layoutPath].src,
                              Extend(call.data, "body", Str(body)))]
        ELSE [error |-> "", content |-> body]

\* C28: while no file has changed, an engine with caching enabled returns
\* for every call, after any calls of render and clearCache, the content
\* or the error an engine without caching returns for it.
C28_CachingIsTransparent ==
    (config.cache /\ writes = 0) =>
        \A c \in DOMAIN calls :
            /\ calls[c].pc = "done" =>
                  /\ C28_Uncached(calls[c]).error = ""
                  /\ calls[c].content = C28_Uncached(calls[c]).content
            /\ calls[c].pc = "failed" =>
                  calls[c].error = C28_Uncached(calls[c]).error

\* C28 witness: with caching enabled and no file changed, the second call
\* took its template and its layout from the cache and returned what the
\* files give.
C28_Witness ==
    /\ config.cache /\ writes = 0
    /\ calls[2].pc = "done"
    /\ calls[2].name = <<"home">>
    /\ calls[2].data = BodyData
    /\ Access("cacheGet", HomePath) \in Logged(calls[2])
    /\ Access("cacheGet", MainPath) \in Logged(calls[2])
    /\ Access("read", HomePath) \notin Logged(calls[2])
    /\ calls[2].content
         = <<"<", "main", ">", "Hello", " ", "Al", "<", "/", "main", ">">>


---------------------------------------------------------------------------
(* The sessions of a Kenx application (specification SpecSession)          *)
(* Time is counted in hours.                                               *)

MaxSessions == 2    \* sessions req.login may create
MaxNow == 27        \* the clock stops here

\* 24 * 60 * 60 * 1000 milliseconds
DefaultSessionExpiry == 24

\* The hours between two readings of the clock.
ClockStep == 3

\* The values uuidv4() returns, in the order it returns them.
Uuids == <<"s1", "s2">>

\* The users a handler logs in.
Users == {"ann", "bob"}

\* The cookies a request may carry: none, a session id issued before, or
\* an id the application never issued.
Cookies == {""} \cup {Uuids[n] : n \in 1..issued} \cup {"forged"}

\* config.auth as passed to the application.
AuthConfigs ==
    { [enabled |-> TRUE, sessionExpiry |-> 0],
      [enabled |-> TRUE, sessionExpiry |-> 2],
      [enabled |-> FALSE, sessionExpiry |-> 0] }

\* this.config.auth.sessionExpiry || 24 * 60 * 60 * 1000
SessionExpiry ==
    IF auth.sessionExpiry # 0 THEN auth.sessionExpiry
    ELSE DefaultSessionExpiry

\* request.isAuthenticated(): !!(request.user && request.session); the
\* empty object {} is truthy.
isAuthenticated(req) == req.user # "" /\ req.session # "undefined"

\* enhanceRequest(req) for a request carrying `cookie`: with auth enabled,
\* the session stored under the id of the cookie, or the empty session.
enhanceRequest(cookie) ==
    IF ~auth.enabled
    THEN [st |-> "open", cookie |-> cookie, at |-> now, via |-> "",
          session |-> "undefined", user |-> ""]
    ELSE IF cookie # "" /\ cookie \in DOMAIN sessions
    THEN [st |-> "open", cookie |-> cookie, at |-> now, via |-> "cookie",
          session |-> cookie, user |-> sessions[cookie].user]
    ELSE [st |-> "open", cookie |-> cookie, at |-> now, via |-> "",
          session |-> "empty", user |-> ""]

InitSession ==
    /\ auth \in AuthConfigs
    /\ sessions = <<>>
    /\ now = 0
    /\ request = NoRequest
    /\ issued = 0
    /\ IdleEngine
    /\ IdleFacade
    /\ IdleSocket

\* A request arrives and is enhanced; the one before it has ended.
Arrive ==
    /\ \E cookie \in Cookies : request' = enhanceRequest(cookie)
    /\ UNCHANGED <<auth, sessions, now, issued>>
    /\ UNCHANGED <<engineVars, facadeVars, socketVars>>

\* The handler calls req.login(user); with auth disabled the call throws.
Login ==
    /\ request.st = "open"
    /\ auth.enabled
    /\ issued < MaxSessions
    /\ \E user \in Users :
          /\ sessions' =
                [id \in DOMAIN sessions \cup {Uuids[issued + 1]} |->
                    IF id = Uuids[issued + 1]
                    THEN [user |-> user, createdAt |-> now,
                          expiresAt |-> now + SessionExpiry]
                    ELSE sessions[id]]
          /\ request' = [request EXCEPT !.session = Uuids[issued + 1],
                                        !.user = user,
                                        !.via = "login"]
    /\ issued' = issued + 1
    /\ UNCHANGED <<auth, now>>
    /\ UNCHANGED <<engineVars, facadeVars, socketVars>>

\* The handler calls req.logout(): the session named by the cookie of the
\* request is deleted.
Logout ==
    /\ request.st = "open"
    /\ request.session # "undefined"
    /\ sessions' = [id \in DOMAIN sessions \ {request.cookie} |->
                       sessions[id]]
    /\ request' = [request EXCEPT !.session = "empty", !.user = "",
                                  !.via = ""]
    /\ UNCHANGED <<auth, now, issued>>
    /\ UNCHANGED <<engineVars, facadeVars, socketVars>>

\* Time passes.
Tick ==
    /\ now + ClockStep <= MaxNow
    /\ now' = now + ClockStep
    /\ UNCHANGED <<auth, sessions, request, issued>>
    /\ UNCHANGED <<engineVars, facadeVars, socketVars>>

NextSession == Arrive \/ Login \/ Logout \/ Tick

SpecSession == InitSession /\ [][NextSession]_vars

\* C29: a request that enhanceRequest authenticated through the session id
\* of its cookie carries the id of a session that req.login created and
\* req.logout has not removed, and arrived no later than the session's
\* expiresAt, which is its creation time plus the session expiry.
C29_AuthenticatedOnlyWhileValid ==
    (request.st = "open" /\ request.via = "cookie"
     /\ isAuthenticated(request)) =>
        /\ request.cookie \in {Uuids[n] : n \in 1..issued}
        /\ request.cookie \in DOMAIN sessions
        /\ sessions[request.cookie].expiresAt
             = sessions[request.cookie].createdAt + SessionExpiry
        /\ request.at <= sessions[request.cookie].expiresAt


---------------------------------------------------------------------------
(* The KenxWebSocket object (specification SpecSocket) *)

MaxClients == 3     \* connections accepted during a run

\* The values generateClientId() returns, in the order it returns them.
ClientIds == <<"c1", "c2", "c3">>

RoomNames == {"lobby", "game"}

\* The maps and the client objects of the KenxWebSocket.
Server == [clients |-> clients, rooms |-> rooms, sockets |-> sockets]

\* joinRoom(clientId, room)
joinRoom(st, clientId, room) ==
    IF clientId \notin st.clients THEN st
    ELSE [st EXCEPT
            !.sockets[clientId].rooms = @ \cup {room},
            !.sockets[clientId].joined = TRUE,
            !.rooms = [r \in DOMAIN st.rooms \cup {room} |->
                          IF r = room
                          THEN (IF room \in DOMAIN st.rooms
                                THEN st.rooms[room] ELSE {})
                               \cup {clientId}
                          ELSE st.rooms[r]]]

\* leaveRoom(clientId, room)
leaveRoom(st, clientId, room) ==
    IF clientId \notin st.clients THEN st
    ELSE [st EXCEPT
            !.sockets[clientId].rooms = @ \ {room},
            !.rooms =
               IF room \notin DOMAIN st.rooms THEN st.rooms
               ELSE IF st.rooms[room] \ {clientId} = {}
               THEN [r \in DOMAIN st.rooms \ {room} |-> st.rooms[r]]
               ELSE [st.rooms EXCEPT ![room] = @ \ {clientId}]]

\* client.rooms.forEach(room => this.leaveRoom(client.id, room)), over
\* the rooms rs still to visit
RECURSIVE LeaveEach(_, _, _)
LeaveEach(st, clientId, rs) ==
    IF rs = {} THEN st
    ELSE LET room == CHOOSE r \in rs : TRUE
         IN  LeaveEach(leaveRoom(st, clientId, room), clientId, rs \ {room})

\* handleDisconnect with its statements in the other order: the client is
\* deleted from this.clients before it leaves its rooms.
handleDisconnectDeletingFirst(st, clientId) ==
    LeaveEach([st EXCEPT !.clients = @ \ {clientId}], clientId,
              st.sockets[clientId].rooms)

\* handleDisconnect(client): the client leaves its rooms, then is deleted
\* from this.clients.
handleDisconnect(st, clientId) ==
    [LeaveEach(st, clientId, st.sockets[clientId].rooms)
        EXCEPT !.clients = @ \ {clientId}]

InitSocket ==
    /\ clients = {}
    /\ rooms = <<>>
    /\ sockets = <<>>
    /\ IdleEngine
    /\ IdleFacade
    /\ IdleSession

\* The server accepts a connection.  The field `joined` of a client
\* records that a joinRoom for it has succeeded.
Connect ==
    /\ Cardinality(DOMAIN sockets) < MaxClients
    /\ \E id \in {ClientIds[Cardinality(DOMAIN sockets) + 1]} :
          /\ clients' = clients \cup {id}
          /\ sockets' = [c \in DOMAIN sockets \cup {id} |->
                            IF c = id
                            THEN [status |-> "open", rooms |-> {},
                                  joined |-> FALSE]
                            ELSE sockets[c]]
    /\ UNCHANGED rooms
    /\ UNCHANGED <<engineVars, facadeVars, sessionVars>>

\* The application calls joinRoom with the id of a client it has seen.
JoinRoom ==
    /\ \E id \in DOMAIN sockets, room \in RoomNames :
          \E st \in {joinRoom(Server, id, room)} :
             /\ clients' = st.clients
             /\ rooms' = st.rooms
             /\ sockets' = st.sockets
    /\ UNCHANGED <<engineVars, facadeVars, sessionVars>>

\* The application calls leaveRoom with the id of a client it has seen.
LeaveRoom ==
    /\ \E id \in DOMAIN sockets, room \in RoomNames :
          \E st \in {leaveRoom(Server, id, room)} :
             /\ clients' = st.clients
             /\ rooms' = st.rooms
             /\ sockets' = st.sockets
    /\ UNCHANGED <<engineVars, facadeVars, sessionVars>>

\* ws.on('error'): the socket of an open connection reports an error.
SocketError ==
    /\ \E id \in DOMAIN sockets :
          /\ sockets[id].status = "open"
          /\ \E st \in {handleDisconnect(Server, id)} :
                /\ clients' = st.clients
                /\ rooms' = st.rooms
                /\ sockets' = [st.sockets EXCEPT ![id].status = "errored"]
    /\ UNCHANGED <<engineVars, facadeVars, sessionVars>>

\* ws.on('close'): a connection closes, after an error or without one.
SocketClose ==
    /\ \E id \in DOMAIN sockets :
          /\ sockets[id].status \in {"open", "errored"}
          /\ \E st \in {handleDisconnect(Server, id)} :
                /\ clients' = st.clients
                /\ rooms' = st.rooms
                /\ sockets' = [st.sockets EXCEPT ![id].status = "closed"]
    /\ UNCHANGED <<engineVars, facadeVars, sessionVars>>

NextSocket == Connect \/ JoinRoom \/ LeaveRoom \/ SocketError \/ SocketClose

SpecSocket == InitSocket /\ [][NextSocket]_vars

\* C30: the two room indexes agree: a client's id is in rooms[r] exactly
\* when r is in the client's rooms; the members of a room are connected
\* clients; no room of the map is empty; a client whose connection has
\* closed or failed is in this.clients no longer and in no room.
C30_RoomIndexesAgree ==
    /\ \A id \in DOMAIN sockets, r \in RoomNames :
          (r \in DOMAIN rooms /\ id \in rooms[r]) <=> r \in sockets[id].rooms
    /\ \A r \in DOMAIN rooms :
          /\ rooms[r] # {}
          /\ rooms[r] \subseteq clients
    /\ clients = {id \in DOMAIN sockets : sockets[id].status = "open"}
    /\ \A id \in DOMAIN sockets :
          sockets[id].status # "open" =>
              /\ sockets[id].rooms = {}
              /\ \A r \in DOMAIN rooms : id \notin rooms[r]

\* C30 witness: c1 and c3 had joined rooms and are gone, c1 closed and c3
\* after an error; c2 is connected and alone in the lobby, and the other
\* room is no longer in the map.
C30_Witness ==
    /\ DOMAIN sockets = {"c1", "c2", "c3"}
    /\ sockets["c1"].status = "closed" /\ sockets["c1"].joined
    /\ sockets["c3"].status = "errored" /\ sockets["c3"].joined
    /\ clients = {"c2"}
    /\ DOMAIN rooms = {"lobby"}
    /\ rooms["lobby"] = {"c2"}
    /\ sockets["c2"].rooms = {"lobby"}

===========================================================================
